---------------------------- MODULE Spec2Model ----------------------------
(***************************************************************************)
(* A model of the spoo.me Rust client (src/src/client.rs, utils.rs,        *)
(* requests.rs, errors.rs): the validators, the eight client methods       *)
(* (four operations, async and blocking), and the transport they talk to.  *)
(*                                                                         *)
(* Strings the program inspects are sequences of characters; a character   *)
(* is a one-character string, or "U+XXXX" for a non-ASCII code point.      *)
(* Response bodies are opaque byte strings, named by TLA+ strings.         *)
(***************************************************************************)
EXTENDS Integers, Sequences, FiniteSets, TLC

(***************************************************************************)
(* String literals of the program and of the request catalogue.            *)
(***************************************************************************)
Str_empty == <<>>
Str_https_spoo_me == <<"h", "t", "t", "p", "s", ":", "/", "/", "s", "p", "o", "o", ".", "m", "e">>
Str_spoo_me == <<"s", "p", "o", "o", ".", "m", "e">>
Str_dotdot == <<".", ".">>
Str_atat == <<"@", "@">>
Str_atdot == <<"@", ".">>
Str_dotat == <<".", "@">>
Str_scheme_sep == <<":", "/", "/">>
Str_ftp == <<"f", "t", "p">>
Str_http == <<"h", "t", "t", "p">>
Str_https == <<"h", "t", "t", "p", "s">>
Str_http_localhost == <<"h", "t", "t", "p", ":", "/", "/", "l", "o", "c", "a", "l", "h", "o", "s", "t">>
Str_http_localhost_x == <<"h", "t", "t", "p", ":", "/", "/", "l", "o", "c", "a", "l", "h", "o", "s", "t", "/", "x">>
Str_short == <<"s", "h", "o", "r", "t">>
Str_Valid_123 == <<"V", "a", "l", "i", "d", "@", "1", "2", "3">>
Str_NoDigit == <<"N", "o", "D", "i", "g", "i", "t", "@">>
Str_https_example_com == <<"h", "t", "t", "p", "s", ":", "/", "/", "e", "x", "a", "m", "p", "l", "e", ".", "c", "o", "m">>
Str_ftp_example_com == <<"f", "t", "p", ":", "/", "/", "e", "x", "a", "m", "p", "l", "e", ".", "c", "o", "m">>
Str_https_spoo_me_test == <<"h", "t", "t", "p", "s", ":", "/", "/", "s", "p", "o", "o", ".", "m", "e", "/", "t", "e", "s", "t">>
Str_http_spoo_me_x == <<"h", "t", "t", "p", ":", "/", "/", "s", "p", "o", "o", ".", "m", "e", "/", "x">>
Str_https_example_com_dotdot == <<"h", "t", "t", "p", "s", ":", "/", "/", "e", "x", "a", "m", "p", "l", "e", ".", "c", "o", "m", "/", ".", ".">>
Str_example_com == <<"e", "x", "a", "m", "p", "l", "e", ".", "c", "o", "m">>
Str_valid_alias == <<"v", "a", "l", "i", "d", "_", "a", "l", "i", "a", "s">>
Str_invalid_alias == <<"i", "n", "v", "a", "l", "i", "d", " ", "a", "l", "i", "a", "s">>
Str_too_long_alias_12345 == <<"t", "o", "o", "_", "l", "o", "n", "g", "_", "a", "l", "i", "a", "s", "_", "1", "2", "3", "4", "5">>
Str_ga == <<"g", "a">>
Str_emoji_seq == <<"U+1F680", "U+1F31F">>
Str_short_code_empty_msg == <<"S", "h", "o", "r", "t", " ", "c", "o", "d", "e", " ", "c", "a", "n", "n", "o", "t", " ", "b", "e", " ", "e", "m", "p", "t", "y">>
Str_slash == <<"/">>
Str_slash_emoji == <<"/", "e", "m", "o", "j", "i">>
Str_slash_stats_slash == <<"/", "s", "t", "a", "t", "s", "/">>
Str_slash_export_slash == <<"/", "e", "x", "p", "o", "r", "t", "/">>
Str_json == <<"j", "s", "o", "n">>
Str_csv == <<"c", "s", "v">>
Str_xlsx == <<"x", "l", "s", "x">>
Str_xml == <<"x", "m", "l">>
Str_true == <<"t", "r", "u", "e">>
Str_false == <<"f", "a", "l", "s", "e">>

(***************************************************************************)
(* Characters.                                                             *)
(***************************************************************************)
Lower == {"a", "b", "c", "d", "e", "f", "g", "h", "i", "j", "k", "l", "m",
          "n", "o", "p", "q", "r", "s", "t", "u", "v", "w", "x", "y", "z"}
Upper == {"A", "B", "C", "D", "E", "F", "G", "H", "I", "J", "K", "L", "M",
          "N", "O", "P", "Q", "R", "S", "T", "U", "V", "W", "X", "Y", "Z"}
Digits == {"0", "1", "2", "3", "4", "5", "6", "7", "8", "9"}
\* Non-ASCII code points of the catalogue with their UTF-8 widths.
TwoByteLetters == {"U+00E9"}
FourByteSymbols == {"U+1F680", "U+1F31F"}

\* The number of bytes of a character in UTF-8 (str::len counts bytes).
Utf8Len(c) == IF c \in TwoByteLetters THEN 2
              ELSE IF c \in FourByteSymbols THEN 4
              ELSE 1

RECURSIVE ByteLen(_)
\* str::len(): the length of a string in bytes.
ByteLen(s) == IF s = <<>> THEN 0 ELSE Utf8Len(Head(s)) + ByteLen(Tail(s))

\* char::is_alphabetic().
IsAlphabetic(c) == c \in Lower \cup Upper \cup TwoByteLetters
\* char::is_ascii_digit().
IsAsciiDigit(c) == c \in Digits

\* str::contains(sub): sub occurs in s as a substring (the empty string
\* occurs in every string).
Contains(s, sub) ==
  \E i \in 1..(Len(s) - Len(sub) + 1) : SubSeq(s, i, i + Len(sub) - 1) = sub

\* s starts with the prefix p.
StartsWith(s, p) == Len(s) >= Len(p) /\ SubSeq(s, 1, Len(p)) = p

(***************************************************************************)
(* Validators (utils.rs).                                                  *)
(***************************************************************************)
MinPasswordLen == 8
MaxAliasLen == 15

(***************************************************************************)
(* u32 values.  A u32 is kept as its two 16-bit halves, value              *)
(* hi * 65536 + lo, so that the whole range 0 .. 4294967295 is there.      *)
(***************************************************************************)
HalfWord == 65536
U32(hi, lo) == [hi |-> hi, lo |-> lo]
U32Zero == U32(0, 0)
U32One == U32(0, 1)
U32MaxValue == U32(HalfWord - 1, HalfWord - 1)
\* a > b on u32 values.
U32Gt(a, b) == a.hi > b.hi \/ (a.hi = b.hi /\ a.lo > b.lo)
\* n \div 10 and n % 10 by long division over the halves.
U32Div10(n) ==
  LET carry == (n.hi % 10) * HalfWord + n.lo
  IN  U32(n.hi \div 10, carry \div 10)
U32Mod10(n) == ((n.hi % 10) * HalfWord + n.lo) % 10

DigitChars == <<"0", "1", "2", "3", "4", "5", "6", "7", "8", "9">>
RECURSIVE U32ToString(_)
\* Display of a u32: its decimal digits, no sign, no leading zero.
U32ToString(n) ==
  IF ~U32Gt(n, U32(0, 9)) THEN <<DigitChars[n.lo + 1]>>
  ELSE U32ToString(U32Div10(n)) \o <<DigitChars[U32Mod10(n) + 1]>>

\* Fault: URL_REGEX without its end anchor: a match of a prefix is enough.
UrlRegexMatches_Unanchored(s) ==
  \E scheme \in {Str_ftp, Str_http, Str_https} :
    LET prefix == scheme \o Str_scheme_sep
    IN  /\ StartsWith(s, prefix)
        /\ Len(s) > Len(prefix)
        /\ s[Len(prefix) + 1] \notin {" ", "\""}

\* URL_REGEX  ^(ftp|http|https):\/\/[^ "]+$
UrlRegexMatches(s) ==
  \E scheme \in {Str_ftp, Str_http, Str_https} :
    LET prefix == scheme \o Str_scheme_sep
        rest == SubSeq(s, Len(prefix) + 1, Len(s))
    IN  /\ StartsWith(s, prefix)
        /\ Len(rest) >= 1
        /\ \A i \in 1..Len(rest) : rest[i] \notin {" ", "\""}

\* ALIAS_REGEX  ^[a-zA-Z0-9_-]*$
AliasRegexMatches(s) ==
  \A i \in 1..Len(s) : s[i] \in Lower \cup Upper \cup Digits \cup {"_", "-"}

is_valid_password(pw) ==
  LET len_ok == ByteLen(pw) >= MinPasswordLen
      has_letter == \E i \in 1..Len(pw) : IsAlphabetic(pw[i])
      has_digit == \E i \in 1..Len(pw) : IsAsciiDigit(pw[i])
      has_special == \E i \in 1..Len(pw) : pw[i] = "@" \/ pw[i] = "."
      no_consec == /\ ~Contains(pw, Str_dotdot)
                   /\ ~Contains(pw, Str_atat)
                   /\ ~Contains(pw, Str_atdot)
                   /\ ~Contains(pw, Str_dotat)
  IN  len_ok /\ has_letter /\ has_digit /\ has_special /\ no_consec

\* is_valid_url of a build with the custom_url feature.
is_valid_url_custom(url, base_url) ==
  UrlRegexMatches(url) /\ ~Contains(url, base_url) /\ ~Contains(url, Str_dotdot)

\* is_valid_url of a build without the custom_url feature.
is_valid_url_default(url) ==
  UrlRegexMatches(url) /\ ~Contains(url, Str_spoo_me) /\ ~Contains(url, Str_dotdot)

\* Fault: the bound on the length is off by one.
is_valid_alias_SixteenAllowed(alias) ==
  AliasRegexMatches(alias) /\ alias # <<>> /\ ByteLen(alias) <= MaxAliasLen + 1

is_valid_alias(alias) ==
  AliasRegexMatches(alias) /\ alias # <<>> /\ ByteLen(alias) <= MaxAliasLen

\* utils.rs of the repository does not define is_valid_max_clicks, which
\* client.rs imports from it; this is the validator section 4.1 of the
\* specification describes.
is_valid_max_clicks(n) == U32Gt(n, U32Zero)

(***************************************************************************)
(* Option<T>.                                                              *)
(***************************************************************************)
None == [some |-> FALSE]
Some(v) == [some |-> TRUE, v |-> v]
\* The options over a set of values.
Opt(S) == {None} \cup {Some(v) : v \in S}

(***************************************************************************)
(* Requests and their builders (requests.rs).                              *)
(***************************************************************************)
ShortenRequest_new(url) ==
  [url |-> url, alias |-> None, password |-> None, max_clicks |-> None,
   block_bots |-> None]
ShortenRequest_alias(r, alias) == [r EXCEPT !.alias = Some(alias)]
ShortenRequest_password(r, password) == [r EXCEPT !.password = Some(password)]
ShortenRequest_max_clicks(r, max) == [r EXCEPT !.max_clicks = Some(max)]
ShortenRequest_block_bots(r, flag) == [r EXCEPT !.block_bots = Some(flag)]

EmojiRequest_new(url) ==
  [url |-> url, emojies |-> None, password |-> None, max_clicks |-> None,
   block_bots |-> None]
EmojiRequest_emojies(r, seq) == [r EXCEPT !.emojies = Some(seq)]
EmojiRequest_password(r, password) == [r EXCEPT !.password = Some(password)]
EmojiRequest_max_clicks(r, max) == [r EXCEPT !.max_clicks = Some(max)]
EmojiRequest_block_bots(r, flag) == [r EXCEPT !.block_bots = Some(flag)]

StatsRequest_new(short_code) == [short_code |-> short_code, password |-> None]
StatsRequest_password(r, password) == [r EXCEPT !.password = Some(password)]

ExportFormats == {"JSON", "CSV", "XLSX", "XML"}
\* Fault: the format written as its variant name ({:?}) in the path.
ExportFormat_fmt_VariantName(f) ==
  CASE f = "JSON" -> <<"J", "S", "O", "N">>
    [] f = "CSV" -> <<"C", "S", "V">>
    [] f = "XLSX" -> <<"X", "L", "S", "X">>
    [] f = "XML" -> <<"X", "M", "L">>
\* Display for ExportFormat.
ExportFormat_fmt(f) ==
  CASE f = "JSON" -> Str_json
    [] f = "CSV" -> Str_csv
    [] f = "XLSX" -> Str_xlsx
    [] f = "XML" -> Str_xml

ExportRequest_new(short_code, export_format) ==
  [short_code |-> short_code, export_format |-> export_format, password |-> None]
ExportRequest_password(r, password) == [r EXCEPT !.password = Some(password)]

(***************************************************************************)
(* The URL-encoded form of a request: its serialized fields in declaration *)
(* order, each a key (the wire name) and a value (its text).               *)
(***************************************************************************)
FormField(key, value) == [key |-> key, value |-> value]
\* Fault: a field without skip_serializing_if, sent empty when it is None.
OptField_SendsEmptyWhenNone(key, opt) ==
  <<FormField(key, IF opt.some THEN opt.v ELSE <<>>)>>
\* A field with skip_serializing_if = "Option::is_none".
OptField(key, opt) == IF opt.some THEN <<FormField(key, opt.v)>> ELSE <<>>
OptU32Field(key, opt) ==
  IF opt.some THEN <<FormField(key, U32ToString(opt.v))>> ELSE <<>>
OptBoolField(key, opt) ==
  IF opt.some THEN <<FormField(key, IF opt.v THEN Str_true ELSE Str_false)>>
  ELSE <<>>

ShortenRequest_form(r) ==
  <<FormField("url", r.url)>> \o OptField("alias", r.alias)
    \o OptField("password", r.password)
    \o OptU32Field("max-clicks", r.max_clicks)
    \o OptBoolField("block-bots", r.block_bots)

EmojiRequest_form(r) ==
  <<FormField("url", r.url)>> \o OptField("emojies", r.emojies)
    \o OptField("password", r.password)
    \o OptU32Field("max-clicks", r.max_clicks)
    \o OptBoolField("block-bots", r.block_bots)

\* short_code is skip_serializing.
StatsRequest_form(r) == OptField("password", r.password)

\* short_code and export_format are skip_serializing.
ExportRequest_form(r) == OptField("password", r.password)

\* An HTTP request as handed to the transport.
HttpPost(url, headers, form) ==
  [method |-> "POST", url |-> url, headers |-> headers, form |-> form]
AcceptJson == {<<"Accept", "application/json">>}

(***************************************************************************)
(* Errors and results (errors.rs).  Every result is a record               *)
(* [kind, tag, value]: kind is "Ok" or the UrlShortenerError variant, tag  *)
(* the inner variant (or the response type), value the payload.            *)
(***************************************************************************)
Result(kind, tag, value) == [kind |-> kind, tag |-> tag, value |-> value]
Ok(type, value) == Result("Ok", type, value)
\* UrlShortenerError::Validation(ValidationError::<variant>(value))
ErrValidation(variant, value) == Result("Validation", variant, value)
\* UrlShortenerError::Api(ApiError::<variant>)
ErrApi(variant) == Result("Api", variant, "")
\* UrlShortenerError::Api(ApiError::Other(msg))
ErrApiOther(msg) == Result("Api", "Other", msg)
\* UrlShortenerError::Http(e)
ErrHttp(e) == Result("Http", "reqwest::Error", e)
\* UrlShortenerError::Json(e)
ErrJson == Result("Json", "serde_json::Error", "")
\* UrlShortenerError::Other(text)
ErrOther(text) == Result("Other", "String", text)
\* Not a result: the method goes on (validation passed, or the body is
\* to be read).
Continue == Result("Continue", "", "")

(***************************************************************************)
(* JSON values (serde_json::Value).                                        *)
(***************************************************************************)
JNull == [t |-> "null"]
JBool(b) == [t |-> "bool", v |-> b]
JNum(n) == [t |-> "number", v |-> n]
JStr(s) == [t |-> "string", v |-> s]
JArr(seq) == [t |-> "array", v |-> seq]
\* An object: a function from its keys to their values.
JObj(f) == [t |-> "object", v |-> f]

(***************************************************************************)
(* The response bodies of the catalogue: the bytes the server sends.       *)
(***************************************************************************)
Body_empty == ""
Body_plain_text == "Too Many Requests"
Body_UrlError == "{\"error\":\"UrlError\"}"
Body_AliasError == "{\"error\":\"AliasError\"}"
Body_PasswordError == "{\"error\":\"PasswordError\"}"
Body_MaxClicksError == "{\"error\":\"MaxClicksError\"}"
Body_EmojiError == "{\"error\":\"EmojiError\"}"
Body_unknown_label == "{\"error\":\"QuotaError\"}"
Body_error_not_string == "{\"error\":404}"
Body_no_error_field == "{\"message\":\"not found\"}"
Body_json_string == "\"AliasError\""
Body_shortened ==
  "{\"short_url\":\"https://spoo.me/abc\",\"domain\":\"spoo.me\",\"original_url\":\"https://example.com\"}"
Body_shortened_and_error ==
  "{\"error\":\"AliasError\",\"short_url\":\"https://spoo.me/abc\",\"domain\":\"spoo.me\",\"original_url\":\"https://example.com\"}"
Body_shortened_bad_type ==
  "{\"short_url\":1,\"domain\":\"spoo.me\",\"original_url\":\"https://example.com\"}"
Body_shortened_array == "[\"https://spoo.me/abc\",\"spoo.me\",\"https://example.com\"]"
Body_stats ==
  "{\"short_code\":\"ga\",\"url\":\"https://google.com\",\"total-clicks\":5,\"total_unique_clicks\":3,\"creation-date\":\"2024-01-01\",\"expired\":null,\"counter\":{\"2024-01-01\":5}}"
Body_stats_negative ==
  "{\"short_code\":\"ga\",\"url\":\"https://google.com\",\"total-clicks\":-1,\"total_unique_clicks\":0}"
\* Two bytes that are no UTF-8 text.
Body_invalid_utf8 == "<0xFF 0xFE>"

Bodies ==
  {Body_empty, Body_plain_text, Body_UrlError, Body_AliasError,
   Body_PasswordError, Body_MaxClicksError, Body_EmojiError,
   Body_unknown_label, Body_error_not_string, Body_no_error_field,
   Body_json_string, Body_shortened, Body_shortened_and_error,
   Body_shortened_bad_type, Body_shortened_array, Body_stats,
   Body_stats_negative, Body_invalid_utf8}

\* Response::text(): the body decoded as UTF-8, every invalid sequence
\* replaced by U+FFFD.
Response_text(body) ==
  IF body = Body_invalid_utf8 THEN "<U+FFFD><U+FFFD>" ELSE body
\* Response::bytes(): the body as it is.
Response_bytes(body) == body

ShortenedFields ==
  [short_url |-> JStr("https://spoo.me/abc"), domain |-> JStr("spoo.me"),
   original_url |-> JStr("https://example.com")]

\* serde_json::from_str::<Value>(text) on the texts of the catalogue:
\* Some(value), or None where the text is no JSON.
ParseJson(text) ==
  CASE text = Body_UrlError -> Some(JObj([error |-> JStr("UrlError")]))
    [] text = Body_AliasError -> Some(JObj([error |-> JStr("AliasError")]))
    [] text = Body_PasswordError -> Some(JObj([error |-> JStr("PasswordError")]))
    [] text = Body_MaxClicksError -> Some(JObj([error |-> JStr("MaxClicksError")]))
    [] text = Body_EmojiError -> Some(JObj([error |-> JStr("EmojiError")]))
    [] text = Body_unknown_label -> Some(JObj([error |-> JStr("QuotaError")]))
    [] text = Body_error_not_string -> Some(JObj([error |-> JNum(404)]))
    [] text = Body_no_error_field -> Some(JObj([message |-> JStr("not found")]))
    [] text = Body_json_string -> Some(JStr("AliasError"))
    [] text = Body_shortened -> Some(JObj(ShortenedFields))
    [] text = Body_shortened_and_error ->
         Some(JObj(("error" :> JStr("AliasError")) @@ ShortenedFields))
    [] text = Body_shortened_bad_type ->
         Some(JObj([ShortenedFields EXCEPT !.short_url = JNum(1)]))
    [] text = Body_shortened_array ->
         Some(JArr(<<JStr("https://spoo.me/abc"), JStr("spoo.me"),
                     JStr("https://example.com")>>))
    [] text = Body_stats ->
         Some(JObj(("short_code" :> JStr("ga")) @@ ("url" :> JStr("https://google.com"))
                   @@ ("total-clicks" :> JNum(5)) @@ ("total_unique_clicks" :> JNum(3))
                   @@ ("creation-date" :> JStr("2024-01-01")) @@ ("expired" :> JNull)
                   @@ ("counter" :> JObj(("2024-01-01" :> JNum(5))))))
    [] text = Body_stats_negative ->
         Some(JObj(("short_code" :> JStr("ga")) @@ ("url" :> JStr("https://google.com"))
                   @@ ("total-clicks" :> JNum(0 - 1)) @@ ("total_unique_clicks" :> JNum(0))))
    [] OTHER -> None

\* err_json.get("error").and_then(|e| e.as_str()) of a parsed body.
ErrorLabel(json) ==
  IF json.t = "object" /\ "error" \in DOMAIN json.v /\ json.v["error"].t = "string"
  THEN Some(json.v["error"].v)
  ELSE None

(***************************************************************************)
(* Deserialize for the response structs (derive): a struct is a sequence   *)
(* of fields [key, ty, opt]; opt marks an Option.                          *)
(***************************************************************************)
Field(key, ty, opt) == [key |-> key, ty |-> ty, opt |-> opt]

ShortenResponse ==
  <<Field("short_url", "string", FALSE), Field("domain", "string", FALSE),
    Field("original_url", "string", FALSE)>>

EmojiResponse ==
  <<Field("short_url", "string", FALSE), Field("domain", "string", FALSE),
    Field("original_url", "string", FALSE)>>

StatsResponse ==
  <<Field("short_code", "string", FALSE), Field("url", "string", FALSE),
    Field("total-clicks", "u32", FALSE), Field("total_unique_clicks", "u32", FALSE),
    Field("creation-date", "string", TRUE), Field("expired", "bool", TRUE),
    Field("last-click", "string", TRUE), Field("last-click-browser", "string", TRUE),
    Field("last-click-os", "string", TRUE), Field("max-clicks", "u32", TRUE),
    Field("password", "string", TRUE), Field("block_bots", "bool", TRUE),
    Field("bots", "map_u32", TRUE), Field("browser", "map_u32", TRUE),
    Field("country", "map_u32", TRUE), Field("counter", "map_u32", TRUE),
    Field("unique_browser", "map_u32", TRUE), Field("unique_country", "map_u32", TRUE),
    Field("unique_counter", "map_u32", TRUE), Field("unique_os_name", "map_u32", TRUE),
    Field("unique_referrer", "map_u32", TRUE)>>

\* A JSON number that deserializes as u32 (the numbers of the catalogue
\* are integers below 2^32).
IsJsonU32(j) == j.t = "number" /\ j.v >= 0

\* Whether the JSON value j deserializes as the type of field f.
FieldAccepts(f, j) ==
  \/ f.opt /\ j.t = "null"
  \/ f.ty = "string" /\ j.t = "string"
  \/ f.ty = "bool" /\ j.t = "bool"
  \/ f.ty = "u32" /\ IsJsonU32(j)
  \/ f.ty = "map_u32" /\ j.t = "object" /\ \A k \in DOMAIN j.v : IsJsonU32(j.v[k])

\* serde_json::from_str::<T>(text) for a struct T: Some(the struct) or None
\* (an error).  An object gives every field by its key, unknown keys are
\* ignored, and an absent Option is None (here JNull); an array gives the
\* fields in order.
FromJson(struct, text) ==
  LET parsed == ParseJson(text)
      keys == {struct[i].key : i \in 1..Len(struct)}
      field(k) == CHOOSE f \in {struct[i] : i \in 1..Len(struct)} : f.key = k
  IN  IF ~parsed.some THEN None
      ELSE LET j == parsed.v IN
        IF j.t = "object" THEN
          IF \A k \in keys :
               IF k \in DOMAIN j.v THEN FieldAccepts(field(k), j.v[k])
               ELSE field(k).opt
          THEN Some([k \in keys |-> IF k \in DOMAIN j.v THEN j.v[k] ELSE JNull])
          ELSE None
        ELSE IF j.t = "array" THEN
          IF Len(j.v) = Len(struct)
             /\ \A i \in 1..Len(struct) : FieldAccepts(struct[i], j.v[i])
          THEN Some([k \in keys |->
                      j.v[CHOOSE i \in 1..Len(struct) : struct[i].key = k]])
          ELSE None
        ELSE None

(***************************************************************************)
(* The client methods (client.rs).  Each method is four operators:         *)
(*   <m>_validate    the checks before the request is built: a validation  *)
(*                   error, or Continue;                                   *)
(*   <m>_request     the request handed to the transport;                  *)
(*   <m>_after_send  what the method does with the status before it reads  *)
(*                   the body: a result, or Continue (read the body);      *)
(*   <m>_after_read  the result once the body has been read.               *)
(* base_url is self.base_url, custom_url the custom_url feature.           *)
(***************************************************************************)
\* StatusCode::is_success().
is_success(status) == 200 <= status /\ status <= 299

\* ---- UrlShortenerClient::shorten (async, lines 92-165) ----
shorten_validate(base_url, custom_url, req) ==
  IF req.password.some /\ ~is_valid_password(req.password.v)
  THEN ErrValidation("InvalidPasswordFormat", req.password.v)
  ELSE IF ~(IF custom_url THEN is_valid_url_custom(req.url, base_url)
                          ELSE is_valid_url_default(req.url))
       THEN ErrValidation("InvalidUrlFormat", req.url)
  ELSE IF req.alias.some /\ ~is_valid_alias(req.alias.v)
       THEN ErrValidation("InvalidAliasFormat", req.alias.v)
  ELSE IF req.max_clicks.some /\ ~is_valid_max_clicks(req.max_clicks.v)
       THEN ErrValidation("InvalidMaxClicks", req.max_clicks.v)
  ELSE Continue
shorten_request(base_url, req) ==
  HttpPost(base_url \o Str_slash, AcceptJson, ShortenRequest_form(req))
\* shorten: the match on the error label (client.rs 148-155).
shorten_api_error(err) ==
  CASE err = "UrlError" -> ErrApi("UrlError")
    [] err = "AliasError" -> ErrApi("AliasError")
    [] err = "PasswordError" -> ErrApi("PasswordError")
    [] err = "MaxClicksError" -> ErrApi("MaxClicksError")
    [] err = "EmojiError" -> ErrApi("EmojiError")
    [] OTHER -> ErrApi("UrlError")
\* shorten: the status is read, then the whole body as text.
shorten_after_send(status) == Continue
\* Fault: shorten decoding the body before it looks at the status.
shorten_after_read_DecodesFirst(status, body) ==
  LET text == Response_text(body)
      result == FromJson(ShortenResponse, text)
  IN  IF result.some THEN Ok("ShortenResponse", result.v)
      ELSE IF ~is_success(status)
      THEN IF status = 429 THEN ErrApi("RateLimitExceeded")
           ELSE LET err_json == ParseJson(text)
                    err == IF err_json.some THEN ErrorLabel(err_json.v) ELSE None
                IN  IF err.some THEN shorten_api_error(err.v) ELSE ErrOther(text)
      ELSE ErrJson

shorten_after_read(status, body) ==
  LET text == Response_text(body) IN
  IF ~is_success(status)
  THEN IF status = 429 THEN ErrApi("RateLimitExceeded")
       ELSE LET err_json == ParseJson(text)
                err == IF err_json.some THEN ErrorLabel(err_json.v) ELSE None
            IN  IF err.some THEN shorten_api_error(err.v) ELSE ErrOther(text)
  ELSE LET result == FromJson(ShortenResponse, text)
       IN  IF result.some THEN Ok("ShortenResponse", result.v) ELSE ErrJson

\* ---- UrlShortenerClient::shorten_blocking (blocking, lines 169-244) ----
\* Fault: shorten_blocking checks the alias before the url.
shorten_blocking_validate_AliasBeforeUrl(base_url, custom_url, req) ==
  IF req.password.some /\ ~is_valid_password(req.password.v)
  THEN ErrValidation("InvalidPasswordFormat", req.password.v)
  ELSE IF req.alias.some /\ ~is_valid_alias(req.alias.v)
       THEN ErrValidation("InvalidAliasFormat", req.alias.v)
  ELSE IF ~(IF custom_url THEN is_valid_url_custom(req.url, base_url)
                          ELSE is_valid_url_default(req.url))
       THEN ErrValidation("InvalidUrlFormat", req.url)
  ELSE IF req.max_clicks.some /\ ~is_valid_max_clicks(req.max_clicks.v)
       THEN ErrValidation("InvalidMaxClicks", req.max_clicks.v)
  ELSE Continue
shorten_blocking_validate(base_url, custom_url, req) ==
  IF req.password.some /\ ~is_valid_password(req.password.v)
  THEN ErrValidation("InvalidPasswordFormat", req.password.v)
  ELSE IF ~(IF custom_url THEN is_valid_url_custom(req.url, base_url)
                          ELSE is_valid_url_default(req.url))
       THEN ErrValidation("InvalidUrlFormat", req.url)
  ELSE IF req.alias.some /\ ~is_valid_alias(req.alias.v)
       THEN ErrValidation("InvalidAliasFormat", req.alias.v)
  ELSE IF req.max_clicks.some /\ ~is_valid_max_clicks(req.max_clicks.v)
       THEN ErrValidation("InvalidMaxClicks", req.max_clicks.v)
  ELSE Continue
shorten_blocking_request(base_url, req) ==
  HttpPost(base_url \o Str_slash, AcceptJson, ShortenRequest_form(req))
\* shorten_blocking: the match on the error label (client.rs 227-234).
shorten_blocking_api_error(err) ==
  CASE err = "UrlError" -> ErrApi("UrlError")
    [] err = "AliasError" -> ErrApi("AliasError")
    [] err = "PasswordError" -> ErrApi("PasswordError")
    [] err = "MaxClicksError" -> ErrApi("MaxClicksError")
    [] err = "EmojiError" -> ErrApi("EmojiError")
    [] OTHER -> ErrApi("UrlError")
\* shorten_blocking: the status is read, then the whole body as text.
shorten_blocking_after_send(status) == Continue
shorten_blocking_after_read(status, body) ==
  LET text == Response_text(body) IN
  IF ~is_success(status)
  THEN IF status = 429 THEN ErrApi("RateLimitExceeded")
       ELSE LET err_json == ParseJson(text)
                err == IF err_json.some THEN ErrorLabel(err_json.v) ELSE None
            IN  IF err.some THEN shorten_blocking_api_error(err.v) ELSE ErrOther(text)
  ELSE LET result == FromJson(ShortenResponse, text)
       IN  IF result.some THEN Ok("ShortenResponse", result.v) ELSE ErrJson

\* ---- UrlShortenerClient::emoji (async, lines 248-313) ----
\* Fault: emoji without its check of the max-clicks.
emoji_validate_NoMaxClicksCheck(base_url, custom_url, req) ==
  IF req.password.some /\ ~is_valid_password(req.password.v)
  THEN ErrValidation("InvalidPasswordFormat", req.password.v)
  ELSE IF ~(IF custom_url THEN is_valid_url_custom(req.url, base_url)
                          ELSE is_valid_url_default(req.url))
       THEN ErrValidation("InvalidUrlFormat", req.url)
  ELSE Continue
emoji_validate(base_url, custom_url, req) ==
  IF req.password.some /\ ~is_valid_password(req.password.v)
  THEN ErrValidation("InvalidPasswordFormat", req.password.v)
  ELSE IF ~(IF custom_url THEN is_valid_url_custom(req.url, base_url)
                          ELSE is_valid_url_default(req.url))
       THEN ErrValidation("InvalidUrlFormat", req.url)
  ELSE IF req.max_clicks.some /\ ~is_valid_max_clicks(req.max_clicks.v)
       THEN ErrValidation("InvalidMaxClicks", req.max_clicks.v)
  ELSE Continue
emoji_request(base_url, req) ==
  HttpPost(base_url \o Str_slash_emoji, AcceptJson, EmojiRequest_form(req))
\* emoji: the match on the error label (client.rs 296-303).
emoji_api_error(err) ==
  CASE err = "UrlError" -> ErrApi("UrlError")
    [] err = "AliasError" -> ErrApi("AliasError")
    [] err = "PasswordError" -> ErrApi("PasswordError")
    [] err = "MaxClicksError" -> ErrApi("MaxClicksError")
    [] err = "EmojiError" -> ErrApi("EmojiError")
    [] OTHER -> ErrApiOther(err)
\* emoji: the status is read, then the whole body as text.
emoji_after_send(status) == Continue
\* emoji giving the decode error for an error body that is not the error JSON.
emoji_after_read_UnshapedIsJsonError(status, body) ==
  LET text == Response_text(body) IN
  IF ~is_success(status)
  THEN IF status = 429 THEN ErrApi("RateLimitExceeded")
       ELSE LET err_json == ParseJson(text)
                err == IF err_json.some THEN ErrorLabel(err_json.v) ELSE None
            IN  IF err.some THEN emoji_api_error(err.v) ELSE ErrJson
  ELSE LET result == FromJson(EmojiResponse, text)
       IN  IF result.some THEN Ok("EmojiResponse", result.v) ELSE ErrJson
emoji_after_read(status, body) ==
  LET text == Response_text(body) IN
  IF ~is_success(status)
  THEN IF status = 429 THEN ErrApi("RateLimitExceeded")
       ELSE LET err_json == ParseJson(text)
                err == IF err_json.some THEN ErrorLabel(err_json.v) ELSE None
            IN  IF err.some THEN emoji_api_error(err.v) ELSE ErrOther(text)
  ELSE LET result == FromJson(EmojiResponse, text)
       IN  IF result.some THEN Ok("EmojiResponse", result.v) ELSE ErrJson

\* ---- UrlShortenerClient::emoji_blocking (blocking, lines 317-381) ----
emoji_blocking_validate(base_url, custom_url, req) ==
  IF req.password.some /\ ~is_valid_password(req.password.v)
  THEN ErrValidation("InvalidPasswordFormat", req.password.v)
  ELSE IF ~(IF custom_url THEN is_valid_url_custom(req.url, base_url)
                          ELSE is_valid_url_default(req.url))
       THEN ErrValidation("InvalidUrlFormat", req.url)
  ELSE IF req.max_clicks.some /\ ~is_valid_max_clicks(req.max_clicks.v)
       THEN ErrValidation("InvalidMaxClicks", req.max_clicks.v)
  ELSE Continue
emoji_blocking_request(base_url, req) ==
  HttpPost(base_url \o Str_slash_emoji, AcceptJson, EmojiRequest_form(req))
\* emoji_blocking: the match on the error label (client.rs 364-371).
emoji_blocking_api_error(err) ==
  CASE err = "UrlError" -> ErrApi("UrlError")
    [] err = "AliasError" -> ErrApi("AliasError")
    [] err = "PasswordError" -> ErrApi("PasswordError")
    [] err = "MaxClicksError" -> ErrApi("MaxClicksError")
    [] err = "EmojiError" -> ErrApi("EmojiError")
    [] OTHER -> ErrApi("UrlError")
\* emoji_blocking: the status is read, then the whole body as text.
emoji_blocking_after_send(status) == Continue
emoji_blocking_after_read(status, body) ==
  LET text == Response_text(body) IN
  IF ~is_success(status)
  THEN IF status = 429 THEN ErrApi("RateLimitExceeded")
       ELSE LET err_json == ParseJson(text)
                err == IF err_json.some THEN ErrorLabel(err_json.v) ELSE None
            IN  IF err.some THEN emoji_blocking_api_error(err.v) ELSE ErrOther(text)
  ELSE LET result == FromJson(EmojiResponse, text)
       IN  IF result.some THEN Ok("EmojiResponse", result.v) ELSE ErrJson

\* ---- UrlShortenerClient::stats (async, lines 385-441) ----
\* stats without the check of the short code's format.
stats_validate_NoFormatCheck(base_url, custom_url, req) ==
  IF req.short_code = <<>>
  THEN ErrValidation("InvalidPasswordFormat", Str_short_code_empty_msg)
  ELSE IF req.password.some /\ ~is_valid_password(req.password.v)
       THEN ErrValidation("InvalidPasswordFormat", req.password.v)
  ELSE Continue
stats_validate(base_url, custom_url, req) ==
  IF req.short_code = <<>>
  THEN ErrValidation("InvalidPasswordFormat", Str_short_code_empty_msg)
  ELSE IF req.password.some /\ ~is_valid_password(req.password.v)
       THEN ErrValidation("InvalidPasswordFormat", req.password.v)
  ELSE IF ~is_valid_alias(req.short_code)
       THEN ErrValidation("InvalidAliasFormat", req.short_code)
  ELSE Continue
stats_request(base_url, req) ==
  HttpPost(base_url \o Str_slash_stats_slash \o req.short_code, AcceptJson,
           StatsRequest_form(req))
\* stats: the match on the error label (client.rs 424-431).
stats_api_error(err) ==
  CASE err = "UrlError" -> ErrApi("UrlError")
    [] err = "AliasError" -> ErrApi("AliasError")
    [] err = "PasswordError" -> ErrApi("PasswordError")
    [] err = "MaxClicksError" -> ErrApi("MaxClicksError")
    [] err = "EmojiError" -> ErrApi("EmojiError")
    [] OTHER -> ErrApi("UrlError")
\* stats: the status is read, then the whole body as text.
stats_after_send(status) == Continue
stats_after_read(status, body) ==
  LET text == Response_text(body) IN
  IF ~is_success(status)
  THEN IF status = 429 THEN ErrApi("RateLimitExceeded")
       ELSE LET err_json == ParseJson(text)
                err == IF err_json.some THEN ErrorLabel(err_json.v) ELSE None
            IN  IF err.some THEN stats_api_error(err.v) ELSE ErrOther(text)
  ELSE LET result == FromJson(StatsResponse, text)
       IN  IF result.some THEN Ok("StatsResponse", result.v) ELSE ErrJson

\* ---- UrlShortenerClient::stats_blocking (blocking, lines 445-500) ----
stats_blocking_validate(base_url, custom_url, req) ==
  IF req.short_code = <<>>
  THEN ErrValidation("InvalidPasswordFormat", Str_short_code_empty_msg)
  ELSE IF req.password.some /\ ~is_valid_password(req.password.v)
       THEN ErrValidation("InvalidPasswordFormat", req.password.v)
  ELSE IF ~is_valid_alias(req.short_code)
       THEN ErrValidation("InvalidAliasFormat", req.short_code)
  ELSE Continue
stats_blocking_request(base_url, req) ==
  HttpPost(base_url \o Str_slash_stats_slash \o req.short_code, AcceptJson,
           StatsRequest_form(req))
\* stats_blocking: the match on the error label (client.rs 483-490).
stats_blocking_api_error(err) ==
  CASE err = "UrlError" -> ErrApi("UrlError")
    [] err = "AliasError" -> ErrApi("AliasError")
    [] err = "PasswordError" -> ErrApi("PasswordError")
    [] err = "MaxClicksError" -> ErrApi("MaxClicksError")
    [] err = "EmojiError" -> ErrApi("EmojiError")
    [] OTHER -> ErrApi("UrlError")
\* stats_blocking: the status is read, then the whole body as text.
stats_blocking_after_send(status) == Continue
\* stats_blocking falling off the end for an error body that is not the
\* error JSON: no outcome at all.
stats_blocking_after_read_NoOutcome(status, body) ==
  LET text == Response_text(body) IN
  IF ~is_success(status)
  THEN IF status = 429 THEN ErrApi("RateLimitExceeded")
       ELSE LET err_json == ParseJson(text)
                err == IF err_json.some THEN ErrorLabel(err_json.v) ELSE None
            IN  IF err.some THEN stats_blocking_api_error(err.v) ELSE Continue
  ELSE LET result == FromJson(StatsResponse, text)
       IN  IF result.some THEN Ok("StatsResponse", result.v) ELSE ErrJson
stats_blocking_after_read(status, body) ==
  LET text == Response_text(body) IN
  IF ~is_success(status)
  THEN IF status = 429 THEN ErrApi("RateLimitExceeded")
       ELSE LET err_json == ParseJson(text)
                err == IF err_json.some THEN ErrorLabel(err_json.v) ELSE None
            IN  IF err.some THEN stats_blocking_api_error(err.v) ELSE ErrOther(text)
  ELSE LET result == FromJson(StatsResponse, text)
       IN  IF result.some THEN Ok("StatsResponse", result.v) ELSE ErrJson

\* ---- UrlShortenerClient::export (async, lines 504-556) ----
export_validate(base_url, custom_url, req) ==
  IF req.short_code = <<>>
  THEN ErrValidation("InvalidAliasFormat", req.short_code)
  ELSE IF ~is_valid_alias(req.short_code)
       THEN ErrValidation("InvalidAliasFormat", req.short_code)
  ELSE Continue
export_request(base_url, req) ==
  HttpPost(base_url \o Str_slash_export_slash \o req.short_code \o Str_slash
             \o ExportFormat_fmt(req.export_format),
           {}, ExportRequest_form(req))
\* export: the match on the error label (client.rs 537-544).
export_api_error(err) ==
  CASE err = "UrlError" -> ErrApi("UrlError")
    [] err = "AliasError" -> ErrApi("AliasError")
    [] err = "PasswordError" -> ErrApi("PasswordError")
    [] err = "MaxClicksError" -> ErrApi("MaxClicksError")
    [] err = "EmojiError" -> ErrApi("EmojiError")
    [] OTHER -> ErrApiOther(err)
\* export: a 429 returns before the body is read.
export_after_send(status) ==
  IF ~is_success(status) /\ status = 429 THEN ErrApi("RateLimitExceeded")
  ELSE Continue
\* export decoding the body of a success as JSON.
export_after_read_DecodesJson(status, body) ==
  IF ~is_success(status)
  THEN LET text == Response_text(body) IN
       LET err_json == ParseJson(text)
           err == IF err_json.some THEN ErrorLabel(err_json.v) ELSE None
       IN  IF err.some THEN export_api_error(err.v) ELSE ErrOther(text)
  ELSE IF ParseJson(Response_text(body)).some
       THEN Ok("ExportResponse", [data |-> Response_bytes(body)])
       ELSE ErrJson
export_after_read(status, body) ==
  IF ~is_success(status)
  THEN LET text == Response_text(body) IN
       LET err_json == ParseJson(text)
           err == IF err_json.some THEN ErrorLabel(err_json.v) ELSE None
       IN  IF err.some THEN export_api_error(err.v) ELSE ErrOther(text)
  ELSE Ok("ExportResponse", [data |-> Response_bytes(body)])

\* ---- UrlShortenerClient::export_blocking (blocking, lines 560-611) ----
export_blocking_validate(base_url, custom_url, req) ==
  IF req.short_code = <<>>
  THEN ErrValidation("InvalidAliasFormat", req.short_code)
  ELSE IF ~is_valid_alias(req.short_code)
       THEN ErrValidation("InvalidAliasFormat", req.short_code)
  ELSE Continue
export_blocking_request(base_url, req) ==
  HttpPost(base_url \o Str_slash_export_slash \o req.short_code \o Str_slash
             \o ExportFormat_fmt(req.export_format),
           {}, ExportRequest_form(req))
\* Fault: export_blocking taking the alias label for the URL one.
export_blocking_api_error_AliasAsUrl(err) ==
  CASE err = "UrlError" -> ErrApi("UrlError")
    [] err = "AliasError" -> ErrApi("UrlError")
    [] err = "PasswordError" -> ErrApi("PasswordError")
    [] err = "MaxClicksError" -> ErrApi("MaxClicksError")
    [] err = "EmojiError" -> ErrApi("EmojiError")
    [] OTHER -> ErrApiOther(err)
\* export_blocking: the match on the error label (client.rs 592-599).
export_blocking_api_error(err) ==
  CASE err = "UrlError" -> ErrApi("UrlError")
    [] err = "AliasError" -> ErrApi("AliasError")
    [] err = "PasswordError" -> ErrApi("PasswordError")
    [] err = "MaxClicksError" -> ErrApi("MaxClicksError")
    [] err = "EmojiError" -> ErrApi("EmojiError")
    [] OTHER -> ErrApiOther(err)
\* export_blocking: a 429 returns before the body is read.
export_blocking_after_send(status) ==
  IF ~is_success(status) /\ status = 429 THEN ErrApi("RateLimitExceeded")
  ELSE Continue
export_blocking_after_read(status, body) ==
  IF ~is_success(status)
  THEN LET text == Response_text(body) IN
       LET err_json == ParseJson(text)
           err == IF err_json.some THEN ErrorLabel(err_json.v) ELSE None
       IN  IF err.some THEN export_blocking_api_error(err.v) ELSE ErrOther(text)
  ELSE Ok("ExportResponse", [data |-> Response_bytes(body)])


(***************************************************************************)
(* The catalogue: the values requests are built from, the base URLs a      *)
(* client is given, and what the transport can answer.                     *)
(***************************************************************************)
Urls ==
  {Str_https_example_com, Str_ftp_example_com, Str_https_spoo_me_test,
   Str_http_spoo_me_x, Str_http_localhost_x, Str_https_example_com_dotdot,
   Str_example_com}
Passwords == {Str_Valid_123, Str_short, Str_NoDigit}
Aliases == {Str_valid_alias, Str_invalid_alias, Str_too_long_alias_12345, Str_empty}
EmojiSequences == {Str_emoji_seq}
ShortCodes == {Str_ga, Str_invalid_alias, Str_too_long_alias_12345, Str_empty}
MaxClicksValues == {U32Zero, U32One, U32MaxValue}
BaseUrls == {Str_https_spoo_me, Str_http_localhost, Str_empty}
Statuses == {200, 299, 300, 400, 429}
\* The transport's own errors (reqwest::Error), by what failed.
SendErrors == {"connect", "timeout"}
ReadErrors == {"decode", "timeout"}

\* Every request the builders give over the catalogue: new(), then each
\* optional setter called or not.
ShortenRequests ==
  {LET r0 == ShortenRequest_new(url)
       r1 == IF a.some THEN ShortenRequest_alias(r0, a.v) ELSE r0
       r2 == IF p.some THEN ShortenRequest_password(r1, p.v) ELSE r1
       r3 == IF m.some THEN ShortenRequest_max_clicks(r2, m.v) ELSE r2
   IN  IF b.some THEN ShortenRequest_block_bots(r3, b.v) ELSE r3 :
   <<url, a, p, m, b>> \in
     Urls \X Opt(Aliases) \X Opt(Passwords) \X Opt(MaxClicksValues) \X Opt(BOOLEAN)}

EmojiRequests ==
  {LET r0 == EmojiRequest_new(url)
       r1 == IF e.some THEN EmojiRequest_emojies(r0, e.v) ELSE r0
       r2 == IF p.some THEN EmojiRequest_password(r1, p.v) ELSE r1
       r3 == IF m.some THEN EmojiRequest_max_clicks(r2, m.v) ELSE r2
   IN  IF b.some THEN EmojiRequest_block_bots(r3, b.v) ELSE r3 :
   <<url, e, p, m, b>> \in
     Urls \X Opt(EmojiSequences) \X Opt(Passwords) \X Opt(MaxClicksValues)
       \X Opt(BOOLEAN)}

StatsRequests ==
  {LET r0 == StatsRequest_new(code)
   IN  IF p.some THEN StatsRequest_password(r0, p.v) ELSE r0 :
   <<code, p>> \in ShortCodes \X Opt(Passwords)}

ExportRequests ==
  {LET r0 == ExportRequest_new(code, f)
   IN  IF p.some THEN ExportRequest_password(r0, p.v) ELSE r0 :
   <<code, f, p>> \in ShortCodes \X ExportFormats \X Opt(Passwords)}

(***************************************************************************)
(* The state: the build's features, the client, and the calls made on it.  *)
(***************************************************************************)
MaxInFlight == 2
CallIds == 1..MaxInFlight

VARIABLES
  features,   \* the cargo features of the build: [blocking, custom_url]
  client,     \* the UrlShortenerClient: [base_url]
  calls       \* per call id: where the call is, its request, what it sent
              \* and received, and its result

vars == <<features, client, calls>>

\* A call is "idle" (not made), "sending" (send() pending), "reading"
\* (text() or bytes() pending) or "done" (returned).
IdleCall ==
  [pc |-> "idle", fn |-> "", req |-> None, sent |-> <<>>, resp |-> None,
   result |-> Continue]

UrlShortenerClient_new == [base_url |-> Str_https_spoo_me]
UrlShortenerClient_new_with_base_url(url) == [base_url |-> url]

Init ==
  /\ features \in [blocking : BOOLEAN, custom_url : BOOLEAN]
  /\ \/ client = UrlShortenerClient_new
     \/ /\ features.custom_url
        /\ \E url \in BaseUrls : client = UrlShortenerClient_new_with_base_url(url)
  /\ calls = [c \in CallIds |-> IdleCall]

\* The method of a call, by name.
AfterSend(fn, status) ==
  CASE fn = "shorten" -> shorten_after_send(status)
    [] fn = "shorten_blocking" -> shorten_blocking_after_send(status)
    [] fn = "emoji" -> emoji_after_send(status)
    [] fn = "emoji_blocking" -> emoji_blocking_after_send(status)
    [] fn = "stats" -> stats_after_send(status)
    [] fn = "stats_blocking" -> stats_blocking_after_send(status)
    [] fn = "export" -> export_after_send(status)
    [] fn = "export_blocking" -> export_blocking_after_send(status)

AfterRead(fn, status, body) ==
  CASE fn = "shorten" -> shorten_after_read(status, body)
    [] fn = "shorten_blocking" -> shorten_blocking_after_read(status, body)
    [] fn = "emoji" -> emoji_after_read(status, body)
    [] fn = "emoji_blocking" -> emoji_blocking_after_read(status, body)
    [] fn = "stats" -> stats_after_read(status, body)
    [] fn = "stats_blocking" -> stats_blocking_after_read(status, body)
    [] fn = "export" -> export_after_read(status, body)
    [] fn = "export_blocking" -> export_blocking_after_read(status, body)

\* Fault: the request is handed to the transport before the checks are
\* looked at.
Begin_SendsBeforeValidating(c, fn, req, validated, request) ==
  /\ calls' = [calls EXCEPT ![c] =
       IF validated.kind = "Validation"
       THEN [pc |-> "done", fn |-> fn, req |-> req, sent |-> <<request>>,
             resp |-> None, result |-> validated]
       ELSE [pc |-> "sending", fn |-> fn, req |-> req, sent |-> <<request>>,
             resp |-> None, result |-> Continue]]
  /\ UNCHANGED <<features, client>>

\* A method is called (on a free call id) with req: it returns the
\* validation error at once, or builds its request and hands it to the
\* transport.
Begin(c, fn, req, validated, request) ==
  /\ calls' = [calls EXCEPT ![c] =
       IF validated.kind = "Validation"
       THEN [pc |-> "done", fn |-> fn, req |-> req, sent |-> <<>>,
             resp |-> None, result |-> validated]
       ELSE [pc |-> "sending", fn |-> fn, req |-> req, sent |-> <<request>>,
             resp |-> None, result |-> Continue]]
  /\ UNCHANGED <<features, client>>

\* Fault: shorten posts to the default host whatever the base URL.
shorten_PostsToDefaultHost(c) ==
  /\ ~features.blocking
  /\ calls[c].pc = "idle"
  /\ \E req \in ShortenRequests :
       Begin(c, "shorten", req,
             shorten_validate(client.base_url, features.custom_url, req),
             shorten_request(UrlShortenerClient_new.base_url, req))

shorten(c) ==
  /\ ~features.blocking
  /\ calls[c].pc = "idle"
  /\ \E req \in ShortenRequests :
       Begin(c, "shorten", req,
             shorten_validate(client.base_url, features.custom_url, req),
             shorten_request(client.base_url, req))

shorten_blocking(c) ==
  /\ features.blocking
  /\ calls[c].pc = "idle"
  /\ \E req \in ShortenRequests :
       Begin(c, "shorten_blocking", req,
             shorten_blocking_validate(client.base_url, features.custom_url, req),
             shorten_blocking_request(client.base_url, req))

emoji(c) ==
  /\ ~features.blocking
  /\ calls[c].pc = "idle"
  /\ \E req \in EmojiRequests :
       Begin(c, "emoji", req,
             emoji_validate(client.base_url, features.custom_url, req),
             emoji_request(client.base_url, req))

emoji_blocking(c) ==
  /\ features.blocking
  /\ calls[c].pc = "idle"
  /\ \E req \in EmojiRequests :
       Begin(c, "emoji_blocking", req,
             emoji_blocking_validate(client.base_url, features.custom_url, req),
             emoji_blocking_request(client.base_url, req))

stats(c) ==
  /\ ~features.blocking
  /\ calls[c].pc = "idle"
  /\ \E req \in StatsRequests :
       Begin(c, "stats", req,
             stats_validate(client.base_url, features.custom_url, req),
             stats_request(client.base_url, req))

stats_blocking(c) ==
  /\ features.blocking
  /\ calls[c].pc = "idle"
  /\ \E req \in StatsRequests :
       Begin(c, "stats_blocking", req,
             stats_blocking_validate(client.base_url, features.custom_url, req),
             stats_blocking_request(client.base_url, req))

export(c) ==
  /\ ~features.blocking
  /\ calls[c].pc = "idle"
  /\ \E req \in ExportRequests :
       Begin(c, "export", req,
             export_validate(client.base_url, features.custom_url, req),
             export_request(client.base_url, req))

export_blocking(c) ==
  /\ features.blocking
  /\ calls[c].pc = "idle"
  /\ \E req \in ExportRequests :
       Begin(c, "export_blocking", req,
             export_blocking_validate(client.base_url, features.custom_url, req),
             export_blocking_request(client.base_url, req))

\* Fault: a failed send() is tried once more before the error is returned.
SendFails_RetriesOnce(c) ==
  /\ calls[c].pc = "sending"
  /\ \E e \in SendErrors :
       calls' = IF Len(calls[c].sent) = 1
                THEN [calls EXCEPT ![c].sent = Append(@, calls[c].sent[1])]
                ELSE [calls EXCEPT ![c].pc = "done", ![c].result = ErrHttp(e)]
  /\ UNCHANGED <<features, client>>

\* send() fails: the method returns the transport's error.
SendFails(c) ==
  /\ calls[c].pc = "sending"
  /\ \E e \in SendErrors :
       calls' = [calls EXCEPT ![c].pc = "done", ![c].result = ErrHttp(e)]
  /\ UNCHANGED <<features, client>>

\* send() returns a response (its status and headers have arrived, its
\* body has not been read): the method reads the status and returns, or
\* goes on to read the body.
Responds(c) ==
  /\ calls[c].pc = "sending"
  /\ \E status \in Statuses :
       LET r == AfterSend(calls[c].fn, status) IN
       calls' = [calls EXCEPT
                   ![c].resp = Some([status |-> status, body |-> None]),
                   ![c].pc = IF r.kind = "Continue" THEN "reading" ELSE "done",
                   ![c].result = r]
  /\ UNCHANGED <<features, client>>

\* Fault: a failed read of the body is reported as a body that does not
\* decode.
ReadFails_GivesDecodeError(c) ==
  /\ calls[c].pc = "reading"
  /\ \E e \in ReadErrors :
       calls' = [calls EXCEPT ![c].pc = "done", ![c].result = ErrJson]
  /\ UNCHANGED <<features, client>>

\* text() or bytes() fails: the method returns the transport's error.
ReadFails(c) ==
  /\ calls[c].pc = "reading"
  /\ \E e \in ReadErrors :
       calls' = [calls EXCEPT ![c].pc = "done", ![c].result = ErrHttp(e)]
  /\ UNCHANGED <<features, client>>

\* text() or bytes() returns the body the server sent: the method
\* interprets it and returns.
ReadReturns(c) ==
  /\ calls[c].pc = "reading"
  /\ \E body \in Bodies :
       calls' = [calls EXCEPT
                   ![c].pc = "done",
                   ![c].resp.v.body = Some(body),
                   ![c].result = AfterRead(calls[c].fn, calls[c].resp.v.status, body)]
  /\ UNCHANGED <<features, client>>

\* The caller takes the result; the call id is free for the next call.
Returned(c) ==
  /\ calls[c].pc = "done"
  /\ calls' = [calls EXCEPT ![c] = IdleCall]
  /\ UNCHANGED <<features, client>>

\* Fault: the base URL is replaced while calls are in flight, as a client
\* with interior mutability would allow.
set_base_url_WhileInFlight ==
  /\ features.custom_url
  /\ \E url \in BaseUrls : client' = [client EXCEPT !.base_url = url]
  /\ UNCHANGED <<features, calls>>

\* set_base_url(&mut self, url): it borrows the client exclusively, so no
\* call is in flight, and it exists only with the custom_url feature.
set_base_url ==
  /\ features.custom_url
  /\ \A c \in CallIds : calls[c].pc = "idle"
  /\ \E url \in BaseUrls : client' = [client EXCEPT !.base_url = url]
  /\ UNCHANGED <<features, calls>>

\* One call at a time on the client.
Step(c) ==
  \/ shorten(c) \/ shorten_blocking(c)
  \/ emoji(c) \/ emoji_blocking(c)
  \/ stats(c) \/ stats_blocking(c)
  \/ export(c) \/ export_blocking(c)
  \/ SendFails(c) \/ Responds(c) \/ ReadFails(c) \/ ReadReturns(c)
  \/ Returned(c)

Next == Step(1) \/ set_base_url

Spec == Init /\ [][Next]_vars

(***************************************************************************)
(* The examples of the tests of utils.rs.                                  *)
(***************************************************************************)
test_valid_password ==
  /\ is_valid_password(Str_Valid_123)
  /\ ~is_valid_password(Str_short)
  /\ ~is_valid_password(Str_NoDigit)

test_valid_url ==
  /\ is_valid_url_custom(Str_https_example_com, Str_spoo_me)
  /\ is_valid_url_custom(Str_ftp_example_com, Str_spoo_me)
  /\ ~is_valid_url_custom(Str_https_spoo_me_test, Str_spoo_me)
  /\ ~is_valid_url_custom(Str_https_example_com_dotdot, Str_spoo_me)
  /\ is_valid_url_default(Str_https_example_com)
  /\ is_valid_url_default(Str_ftp_example_com)
  /\ ~is_valid_url_default(Str_https_spoo_me_test)
  /\ ~is_valid_url_default(Str_https_example_com_dotdot)

test_valid_alias ==
  /\ is_valid_alias(Str_valid_alias)
  /\ ~is_valid_alias(Str_invalid_alias)
  /\ ~is_valid_alias(Str_too_long_alias_12345)
  /\ ~is_valid_alias(Str_empty)

(***************************************************************************)
(* Vocabulary of the properties.                                           *)
(***************************************************************************)
\* The operation a method belongs to.
Operation(fn) ==
  CASE fn \in {"shorten", "shorten_blocking"} -> "shorten"
    [] fn \in {"emoji", "emoji_blocking"} -> "emoji"
    [] fn \in {"stats", "stats_blocking"} -> "stats"
    [] fn \in {"export", "export_blocking"} -> "export"

\* The same operation in the other calling convention.
Sibling(fn) ==
  CASE fn = "shorten" -> "shorten_blocking"
    [] fn = "shorten_blocking" -> "shorten"
    [] fn = "emoji" -> "emoji_blocking"
    [] fn = "emoji_blocking" -> "emoji"
    [] fn = "stats" -> "stats_blocking"
    [] fn = "stats_blocking" -> "stats"
    [] fn = "export" -> "export_blocking"
    [] fn = "export_blocking" -> "export"

Validate(fn, base_url, custom_url, req) ==
  CASE fn = "shorten" -> shorten_validate(base_url, custom_url, req)
    [] fn = "shorten_blocking" -> shorten_blocking_validate(base_url, custom_url, req)
    [] fn = "emoji" -> emoji_validate(base_url, custom_url, req)
    [] fn = "emoji_blocking" -> emoji_blocking_validate(base_url, custom_url, req)
    [] fn = "stats" -> stats_validate(base_url, custom_url, req)
    [] fn = "stats_blocking" -> stats_blocking_validate(base_url, custom_url, req)
    [] fn = "export" -> export_validate(base_url, custom_url, req)
    [] fn = "export_blocking" -> export_blocking_validate(base_url, custom_url, req)

Request(fn, base_url, req) ==
  CASE fn = "shorten" -> shorten_request(base_url, req)
    [] fn = "shorten_blocking" -> shorten_blocking_request(base_url, req)
    [] fn = "emoji" -> emoji_request(base_url, req)
    [] fn = "emoji_blocking" -> emoji_blocking_request(base_url, req)
    [] fn = "stats" -> stats_request(base_url, req)
    [] fn = "stats_blocking" -> stats_blocking_request(base_url, req)
    [] fn = "export" -> export_request(base_url, req)
    [] fn = "export_blocking" -> export_blocking_request(base_url, req)

\* The calls that have been made and not yet handed back.
Made == {c \in CallIds : calls[c].pc # "idle"}
Completed == {c \in CallIds : calls[c].pc = "done"}
\* The completed calls that received a response, and those that also read
\* its body.
Answered == {c \in Completed : calls[c].resp.some}
BodyRead == {c \in Answered : calls[c].resp.v.body.some}
StatusOf(c) == calls[c].resp.v.status
BodyOf(c) == calls[c].resp.v.body.v
OperationOf(c) == Operation(calls[c].fn)
RateLimited == ErrApi("RateLimitExceeded")
\* Two results are the same: the same kind, the same inner variant, the
\* same payload.
SameResult(r1, r2) == r1.kind = r2.kind /\ r1.tag = r2.tag /\ r1.value = r2.value
\* A non-success status other than 429.
IsErrorStatus(status) == ~(200 <= status /\ status <= 299) /\ status # 429

\* The URL check of the build: against the base URL with the custom_url
\* feature, against the default host name without it.
UrlAccepted(url) ==
  IF features.custom_url THEN is_valid_url_custom(url, client.base_url)
  ELSE is_valid_url_default(url)

PasswordRejected(req) == req.password.some /\ ~is_valid_password(req.password.v)

\* Some check the operation makes on the request fails.
FailsValidation(op, req) ==
  CASE op = "shorten" ->
         \/ PasswordRejected(req)
         \/ ~UrlAccepted(req.url)
         \/ req.alias.some /\ ~is_valid_alias(req.alias.v)
         \/ req.max_clicks.some /\ ~is_valid_max_clicks(req.max_clicks.v)
    [] op = "emoji" ->
         \/ PasswordRejected(req)
         \/ ~UrlAccepted(req.url)
         \/ req.max_clicks.some /\ ~is_valid_max_clicks(req.max_clicks.v)
    [] op = "stats" -> PasswordRejected(req) \/ ~is_valid_alias(req.short_code)
    [] op = "export" -> ~is_valid_alias(req.short_code)

(***************************************************************************)
(* C1.  Whenever a check an operation makes on its request fails, the      *)
(* call returns a validation error and has submitted no HTTP request;      *)
(* and no call that returned a validation error has submitted one.  In     *)
(* both calling conventions, for the four operations.                      *)
(***************************************************************************)
C1_ValidationFailureNeverReachesNetwork ==
  \A c \in Made :
    /\ FailsValidation(OperationOf(c), calls[c].req) =>
         /\ calls[c].pc = "done"
         /\ calls[c].result.kind = "Validation"
         /\ calls[c].sent = <<>>
    /\ calls[c].result.kind = "Validation" => calls[c].sent = <<>>

\* A stats_blocking and an export call rejected locally.
C1_Witness ==
  \E c \in Completed :
    /\ calls[c].fn \in {"stats_blocking", "export"}
    /\ FailsValidation(OperationOf(c), calls[c].req)
    /\ calls[c].result.kind = "Validation"

(***************************************************************************)
(* C2.  A call whose response has status 429 returns the rate-limit error, *)
(* whatever body the server sent (empty, text, an error JSON, a success    *)
(* JSON) and whatever became of reading it: never another service error,   *)
(* an unstructured error, a success value or any other result.             *)
(***************************************************************************)
C2_Status429IsRateLimit ==
  \A c \in Answered :
    StatusOf(c) = 429 => SameResult(calls[c].result, RateLimited)

(***************************************************************************)
(* C3.  On a non-success status other than 429, a body that is a JSON      *)
(* object whose "error" is one of the five known labels gives the service  *)
(* error of that label, in every method.                                   *)
(***************************************************************************)
\* The bodies of the catalogue with a known label, and the label.
KnownLabelBodies ==
  {<<Body_UrlError, "UrlError">>, <<Body_AliasError, "AliasError">>,
   <<Body_PasswordError, "PasswordError">>,
   <<Body_MaxClicksError, "MaxClicksError">>, <<Body_EmojiError, "EmojiError">>,
   <<Body_shortened_and_error, "AliasError">>}

C3_KnownLabelGivesItsServiceError ==
  \A c \in BodyRead :
    \A bl \in KnownLabelBodies :
      IsErrorStatus(StatusOf(c)) /\ BodyOf(c) = bl[1] =>
        SameResult(calls[c].result, ErrApi(bl[2]))

\* Status 400 with {"error":"AliasError"}.
C3_Witness ==
  \E c \in BodyRead :
    /\ StatusOf(c) = 400
    /\ BodyOf(c) = Body_AliasError
    /\ calls[c].fn = "export_blocking"
    /\ SameResult(calls[c].result, ErrApi("AliasError"))

(***************************************************************************)
(* C4.  On a non-success status other than 429, a body whose "error" is a  *)
(* string that is none of the five labels gives, in every method, the      *)
(* service error "other" carrying that string, never a specific kind.      *)
(***************************************************************************)
C4_UnknownLabelGivesOther ==
  \A c \in BodyRead :
    IsErrorStatus(StatusOf(c)) /\ BodyOf(c) = Body_unknown_label =>
      SameResult(calls[c].result, ErrApiOther("QuotaError"))

(***************************************************************************)
(* C5.  The blocking and the non-blocking method of an operation behave    *)
(* alike: on the request, base URL and response of any call, the method    *)
(* of the other calling convention makes the same checks, submits the      *)
(* same request and returns the same result.                               *)
(***************************************************************************)
C5_BlockingAndAsyncAgree ==
  \A c \in Made :
    LET fn == calls[c].fn
        other == Sibling(fn)
        req == calls[c].req
    IN  /\ SameResult(Validate(fn, client.base_url, features.custom_url, req),
                      Validate(other, client.base_url, features.custom_url, req))
        /\ calls[c].sent # <<>> =>
             calls[c].sent = <<Request(other, client.base_url, req)>>
        /\ calls[c].resp.some =>
             SameResult(AfterSend(fn, StatusOf(c)), AfterSend(other, StatusOf(c)))
        /\ c \in BodyRead =>
             SameResult(calls[c].result, AfterRead(other, StatusOf(c), BodyOf(c)))

(***************************************************************************)
(* C6.  In the four operations a request whose password is present and     *)
(* fails is_valid_password is rejected before anything is submitted, with  *)
(* the invalid-password validation error (in export, where the short code  *)
(* is looked at first, when the short code is a valid one), and no         *)
(* submitted form holds such a password.                                   *)
(***************************************************************************)
C6_InvalidPasswordIsRejected ==
  \A c \in Made :
    /\ PasswordRejected(calls[c].req) =>
         /\ calls[c].pc = "done"
         /\ calls[c].result.kind = "Validation"
         /\ calls[c].sent = <<>>
         /\ (OperationOf(c) = "export" => is_valid_alias(calls[c].req.short_code)) =>
              calls[c].result.tag = "InvalidPasswordFormat"
    /\ \A i \in 1..Len(calls[c].sent) :
         \A j \in 1..Len(calls[c].sent[i].form) :
           calls[c].sent[i].form[j].key = "password" =>
             is_valid_password(calls[c].sent[i].form[j].value)

(***************************************************************************)
(* C7.  A validation error names the field that failed and carries its     *)
(* value: the password, the URL, the alias or short code (the empty short  *)
(* code of stats and export too), the max-clicks number.                   *)
(***************************************************************************)
C7_ValidationErrorCarriesOffendingValue ==
  \A c \in Completed :
    LET r == calls[c].result
        req == calls[c].req
        op == OperationOf(c)
    IN  r.kind = "Validation" =>
          /\ CASE r.tag = "InvalidPasswordFormat" ->
                    /\ req.password.some
                    /\ r.value = req.password.v
                    /\ ~is_valid_password(r.value)
               [] r.tag = "InvalidUrlFormat" ->
                    /\ op \in {"shorten", "emoji"}
                    /\ r.value = req.url
                    /\ ~UrlAccepted(r.value)
               [] r.tag = "InvalidAliasFormat" ->
                    IF op = "shorten"
                    THEN /\ req.alias.some
                         /\ r.value = req.alias.v
                         /\ ~is_valid_alias(r.value)
                    ELSE /\ op \in {"stats", "export"}
                         /\ r.value = req.short_code
                         /\ ~is_valid_alias(r.value)
               [] r.tag = "InvalidMaxClicks" ->
                    /\ req.max_clicks.some
                    /\ r.value = req.max_clicks.v
                    /\ ~is_valid_max_clicks(r.value)
               [] OTHER -> FALSE
          /\ op \in {"stats", "export"} /\ req.short_code = <<>> =>
               r.tag = "InvalidAliasFormat" /\ r.value = <<>>

(***************************************************************************)
(* C8.  Every submitted request is a checked one.  A request submitted by  *)
(* shorten or emoji has a url the build's URL check accepts and, if it     *)
(* has a max-clicks, one above 0; one submitted by shorten has an alias    *)
(* that, if present, is valid; one submitted by stats or export has a      *)
(* valid short code: non-empty, at most 15 characters, all of              *)
(* [a-zA-Z0-9_-].  Stated of the request of the call and of the form and   *)
(* the URL that went to the transport.                                     *)
(***************************************************************************)
\* The values a form holds for a key.
FormValues(form, key) == {form[j].value : j \in {i \in 1..Len(form) : form[i].key = key}}
\* s ends with the suffix p.
EndsWith(s, p) == Len(s) >= Len(p) /\ SubSeq(s, Len(s) - Len(p) + 1, Len(s)) = p
\* A short code as the property words it.
WellFormedShortCode(s) ==
  /\ s # <<>>
  /\ Len(s) <= 15
  /\ \A i \in 1..Len(s) : s[i] \in Lower \cup Upper \cup Digits \cup {"_", "-"}

C8_SubmittedRequestsAreValid ==
  \A c \in Made :
    \A i \in 1..Len(calls[c].sent) :
      LET req == calls[c].req
          op == OperationOf(c)
          form == calls[c].sent[i].form
      IN  /\ op \in {"shorten", "emoji"} =>
               /\ UrlAccepted(req.url)
               /\ FormValues(form, "url") = {req.url}
               /\ req.max_clicks.some => U32Gt(req.max_clicks.v, U32Zero)
               /\ <<"0">> \notin FormValues(form, "max-clicks")
          /\ op = "shorten" =>
               /\ req.alias.some => is_valid_alias(req.alias.v)
               /\ \A a \in FormValues(form, "alias") : is_valid_alias(a)
          /\ op \in {"stats", "export"} =>
               /\ is_valid_alias(req.short_code)
               /\ WellFormedShortCode(req.short_code)
          /\ op = "stats" => EndsWith(calls[c].sent[i].url, req.short_code)

\* A shorten request with an alias and a max-clicks, and a stats request, on
\* their way.
C8_Witness ==
  \E c \in Made :
    /\ calls[c].pc = "sending"
    /\ calls[c].fn = "shorten"
    /\ calls[c].req.alias.some
    /\ calls[c].req.max_clicks.some
    /\ Len(calls[c].sent) = 1

(***************************************************************************)
(* C9.  On a non-success status other than 429, a body that is not the     *)
(* error JSON (no JSON at all, or JSON without a string "error") gives the *)
(* unstructured error carrying the response text as it was read.           *)
(***************************************************************************)
\* The bodies of the catalogue that are no JSON, or JSON with no string
\* under "error".
UnshapedBodies ==
  {Body_empty, Body_plain_text, Body_invalid_utf8, Body_error_not_string,
   Body_no_error_field, Body_json_string, Body_shortened,
   Body_shortened_bad_type, Body_shortened_array, Body_stats,
   Body_stats_negative}
\* The text text() gives for a body of the catalogue.
TextOfBody(body) == IF body = Body_invalid_utf8 THEN "<U+FFFD><U+FFFD>" ELSE body

C9_UnshapedErrorBodyIsReturnedRaw ==
  \A c \in BodyRead :
    IsErrorStatus(StatusOf(c)) /\ BodyOf(c) \in UnshapedBodies =>
      SameResult(calls[c].result, ErrOther(TextOfBody(BodyOf(c))))

\* A 400 with a plain-text body, and one with JSON that has no "error".
C9_Witness ==
  \E c \in BodyRead :
    /\ StatusOf(c) = 400
    /\ BodyOf(c) \in {Body_plain_text, Body_no_error_field}
    /\ calls[c].fn = "emoji"
    /\ calls[c].result.kind = "Other"
    /\ calls[c].result.value = BodyOf(c)

(***************************************************************************)
(* C10.  On a success status shorten, emoji and stats return the decoded   *)
(* response when the body has the JSON shape of their response and the     *)
(* decode error when it has not; export returns the body's bytes as they   *)
(* are, undecoded, the empty body too.  No such call returns a service,    *)
(* rate-limit or unstructured error.                                       *)
(***************************************************************************)
\* The response struct an operation decodes.
ResponseType(op) ==
  CASE op = "shorten" -> "ShortenResponse"
    [] op = "emoji" -> "EmojiResponse"
    [] op = "stats" -> "StatsResponse"
    [] op = "export" -> "ExportResponse"
\* The bodies of the catalogue that have the shape of an operation's
\* response.
ShapedBodies(op) ==
  CASE op \in {"shorten", "emoji"} ->
         {Body_shortened, Body_shortened_and_error, Body_shortened_array}
    [] op = "stats" -> {Body_stats}
    [] op = "export" -> {}

C10_SuccessStatusDecodesPerEndpoint ==
  \A c \in Answered :
    LET op == OperationOf(c)
        r == calls[c].result
    IN  200 <= StatusOf(c) /\ StatusOf(c) <= 299 =>
          /\ r.kind \in {"Ok", "Json", "Http"}
          /\ c \in BodyRead =>
               IF op = "export"
               THEN SameResult(r, Ok("ExportResponse", [data |-> BodyOf(c)]))
               ELSE IF BodyOf(c) \in ShapedBodies(op)
               THEN /\ r.kind = "Ok"
                    /\ r.tag = ResponseType(op)
                    /\ op \in {"shorten", "emoji"} =>
                         /\ r.value["short_url"] = JStr("https://spoo.me/abc")
                         /\ r.value["domain"] = JStr("spoo.me")
                         /\ r.value["original_url"] = JStr("https://example.com")
                    /\ op = "stats" =>
                         /\ r.value["short_code"] = JStr("ga")
                         /\ r.value["total-clicks"] = JNum(5)
                         /\ r.value["creation-date"] = JStr("2024-01-01")
                         /\ r.value["last-click"] = JNull
               ELSE SameResult(r, ErrJson)

\* An export of an empty body and a shorten that decoded, both on 299.
C10_Witness ==
  \E c \in BodyRead :
    /\ StatusOf(c) = 299
    /\ \/ calls[c].fn = "export" /\ BodyOf(c) = Body_empty
       \/ calls[c].fn = "shorten" /\ BodyOf(c) = Body_shortened
    /\ calls[c].result.kind = "Ok"

(***************************************************************************)
(* C11.  A call that returned has exactly one outcome, one of: success     *)
(* value, validation error, service error (the rate limit too), transport  *)
(* error, decode error, unstructured error; a call that has not returned   *)
(* has none.  The outcome is the one the request, the base URL, what the   *)
(* transport did, the status and the body determine, and every status and  *)
(* every body a call in progress may meet gives it one.                    *)
(***************************************************************************)
\* The outcomes a call can have, by the variant of the result.
Outcomes == {"Ok", "Validation", "Api", "Http", "Json", "Other"}

C11_ExactlyOneOutcome ==
  \A c \in Made :
    LET r == calls[c].result
        fn == calls[c].fn
        v == Validate(fn, client.base_url, features.custom_url, calls[c].req)
    IN  /\ calls[c].pc = "done" <=> r.kind \in Outcomes
        /\ calls[c].pc # "done" => r.kind = "Continue"
        /\ calls[c].pc = "sending" =>
             \A status \in Statuses :
               AfterSend(fn, status).kind \in Outcomes \cup {"Continue"}
        /\ calls[c].pc = "reading" =>
             \A body \in Bodies : AfterRead(fn, StatusOf(c), body).kind \in Outcomes
        /\ calls[c].pc = "done" =>
             /\ v.kind = "Validation" => SameResult(r, v) /\ ~calls[c].resp.some
             /\ v.kind # "Validation" /\ ~calls[c].resp.some =>
                  r.kind = "Http" /\ r.value \in SendErrors
             /\ calls[c].resp.some /\ ~calls[c].resp.v.body.some =>
                  IF AfterSend(fn, StatusOf(c)).kind # "Continue"
                  THEN SameResult(r, AfterSend(fn, StatusOf(c)))
                  ELSE r.kind = "Http" /\ r.value \in ReadErrors
             /\ c \in BodyRead => SameResult(r, AfterRead(fn, StatusOf(c), BodyOf(c)))

\* A call that ended in the decode error: a 200 whose body is an error JSON.
C11_Witness ==
  \E c \in BodyRead :
    /\ StatusOf(c) = 200
    /\ BodyOf(c) = Body_AliasError
    /\ calls[c].fn = "stats_blocking"
    /\ calls[c].result.kind = "Json"

(***************************************************************************)
(* C12.  No method retries.  A call has submitted at most one HTTP         *)
(* request at any moment of any execution: exactly one once the checks     *)
(* the operation makes have passed, none when one failed; and a call that  *)
(* met a transport failure, a 429 or any other error response has          *)
(* returned that error with its one request, never a second.               *)
(***************************************************************************)
C12_AtMostOneRequestPerCall ==
  \A c \in Made :
    LET r == calls[c].result IN
    /\ Len(calls[c].sent) <= 1
    /\ Len(calls[c].sent) = 1 <=> ~FailsValidation(OperationOf(c), calls[c].req)
    /\ Len(calls[c].sent) = 0 <=> r.kind = "Validation"
    /\ r.kind \in {"Http", "Api", "Other", "Json"} =>
         calls[c].pc = "done" /\ Len(calls[c].sent) = 1
    /\ calls[c].resp.some /\ ~(200 <= StatusOf(c) /\ StatusOf(c) <= 299) =>
         /\ Len(calls[c].sent) = 1
         /\ calls[c].pc = "done" => r.kind \in {"Api", "Other", "Http"}

\* A call whose send() failed, and one answered 429: each returned its
\* error with one request submitted.
C12_Witness ==
  \E c \in Completed :
    /\ Len(calls[c].sent) = 1
    /\ \/ calls[c].result.kind = "Http" /\ ~calls[c].resp.some
       \/ c \in Answered /\ StatusOf(c) = 429 /\ calls[c].result.kind = "Api"

(***************************************************************************)
(* Calls in flight together.  A non-blocking method suspends at send()     *)
(* and at the read of the body, a blocking one runs on its caller's        *)
(* thread: either way the steps of several calls on one client (&self)     *)
(* interleave freely.  The requests are a part of the catalogue: one the   *)
(* base URL decides, one no check rejects, one a check rejects.            *)
(***************************************************************************)
Methods ==
  {"shorten", "shorten_blocking", "emoji", "emoji_blocking",
   "stats", "stats_blocking", "export", "export_blocking"}
BlockingMethods ==
  {"shorten_blocking", "emoji_blocking", "stats_blocking", "export_blocking"}

ConcurrentRequests(op) ==
  CASE op = "shorten" ->
         {ShortenRequest_new(Str_http_localhost_x),
          ShortenRequest_password(ShortenRequest_new(Str_ftp_example_com), Str_short)}
    [] op = "emoji" -> {EmojiRequest_new(Str_https_example_com)}
    [] op = "stats" -> {StatsRequest_new(Str_empty)}
    [] op = "export" -> {ExportRequest_new(Str_ga, "CSV")}

\* The method fn is called with one of reqs.
Call(c, fn, reqs) ==
  /\ features.blocking <=> fn \in BlockingMethods
  /\ calls[c].pc = "idle"
  /\ \E req \in reqs :
       Begin(c, fn, req,
             Validate(fn, client.base_url, features.custom_url, req),
             Request(fn, client.base_url, req))

ConcurrentStep(c) ==
  \/ Call(c, "shorten", ConcurrentRequests("shorten"))
  \/ Call(c, "shorten_blocking", ConcurrentRequests("shorten"))
  \/ Call(c, "emoji", ConcurrentRequests("emoji"))
  \/ Call(c, "emoji_blocking", ConcurrentRequests("emoji"))
  \/ Call(c, "stats", ConcurrentRequests("stats"))
  \/ Call(c, "stats_blocking", ConcurrentRequests("stats"))
  \/ Call(c, "export", ConcurrentRequests("export"))
  \/ Call(c, "export_blocking", ConcurrentRequests("export"))
  \/ SendFails(c) \/ Responds(c) \/ ReadFails(c) \/ ReadReturns(c)
  \/ Returned(c)

ConcurrentNext == (\E c \in CallIds : ConcurrentStep(c)) \/ set_base_url

SpecConcurrent == Init /\ [][ConcurrentNext]_vars

(***************************************************************************)
(* C13.  With calls in flight together on one client, under every          *)
(* interleaving of their steps: the outcome of each call is the one its    *)
(* own request and its own response give it when it runs alone; a step of  *)
(* one call changes nothing of another; and the base URL of the client     *)
(* does not change while a call is in flight.                              *)
(***************************************************************************)
\* The result of call c is the one a call alone gets from c's request and
\* c's transport results.
OutcomeAsIfAlone(c) ==
  LET r == calls[c].result
      fn == calls[c].fn
      v == Validate(fn, client.base_url, features.custom_url, calls[c].req)
  IN  IF v.kind = "Validation" THEN SameResult(r, v) /\ calls[c].sent = <<>>
      ELSE /\ calls[c].sent = <<Request(fn, client.base_url, calls[c].req)>>
           /\ IF ~calls[c].resp.some THEN r.kind = "Http"
              ELSE IF calls[c].resp.v.body.some
              THEN SameResult(r, AfterRead(fn, StatusOf(c), BodyOf(c)))
              ELSE IF AfterSend(fn, StatusOf(c)).kind = "Continue"
              THEN r.kind = "Http"
              ELSE SameResult(r, AfterSend(fn, StatusOf(c)))

\* Two records of a call are the same.
SameCall(a, b) ==
  /\ a.pc = b.pc
  /\ a.fn = b.fn
  /\ a.req = b.req
  /\ a.sent = b.sent
  /\ a.resp.some = b.resp.some
  /\ a.resp.some => a.resp.v = b.resp.v
  /\ SameResult(a.result, b.result)

\* Every step of a call moves its pc.
CallsDoNotInterfere ==
  /\ (\E c \in CallIds : calls[c].pc # "idle") => client' = client
  /\ \A c \in CallIds :
       calls'[c].pc # calls[c].pc =>
         \A d \in CallIds \ {c} : SameCall(calls'[d], calls[d])

C13_ConcurrentCallsAreIndependent ==
  /\ [](\A c \in Completed : OutcomeAsIfAlone(c))
  /\ [][CallsDoNotInterfere]_vars

\* Two calls in flight at once, one past its response and one not, then
\* both returned.
C13_Witness ==
  /\ calls[1].pc = "done" /\ calls[2].pc = "done"
  /\ calls[1].fn = "shorten" /\ calls[2].fn = "export"
  /\ calls[1].resp.some /\ calls[2].resp.some
  /\ StatusOf(1) = 400 /\ StatusOf(2) = 200
  /\ calls[1].result.kind = "Other" /\ calls[2].result.kind = "Ok"
  /\ features.custom_url

(***************************************************************************)
(* C14.  The form of a submitted request holds the populated fields under  *)
(* their wire names, each once, and nothing else: shorten sends url and,   *)
(* when set, alias, password, max-clicks, block-bots; emoji sends url      *)
(* and, when set, emojies, password, max-clicks, block-bots; stats and     *)
(* export send password when set and nothing else (no short code, no       *)
(* export format).  A field that is not set has no entry at all.           *)
(***************************************************************************)
\* The keys of a form, and how often a key occurs in it.
FormKeys(form) == {form[i].key : i \in 1..Len(form)}
KeyCount(form, key) == Cardinality({i \in 1..Len(form) : form[i].key = key})
\* The decimal text of the max-clicks values of the catalogue.
MaxClicksText(n) ==
  CASE n = U32Zero -> <<"0">>
    [] n = U32One -> <<"1">>
    [] n = U32MaxValue -> <<"4", "2", "9", "4", "9", "6", "7", "2", "9", "5">>
\* The entry the form must have for an optional field: its value when the
\* field is set, none when it is not.
SentWhenSet(form, key, opt, text) ==
  IF opt.some
  THEN KeyCount(form, key) = 1 /\ FormValues(form, key) = {text}
  ELSE key \notin FormKeys(form)

C14_FormHoldsExactlyThePopulatedFields ==
  \A c \in Made :
    \A i \in 1..Len(calls[c].sent) :
      LET req == calls[c].req
          op == OperationOf(c)
          form == calls[c].sent[i].form
      IN  /\ op = "shorten" =>
               /\ FormKeys(form) \subseteq
                    {"url", "alias", "password", "max-clicks", "block-bots"}
               /\ KeyCount(form, "url") = 1 /\ FormValues(form, "url") = {req.url}
               /\ SentWhenSet(form, "alias", req.alias,
                              IF req.alias.some THEN req.alias.v ELSE <<>>)
          /\ op = "emoji" =>
               /\ FormKeys(form) \subseteq
                    {"url", "emojies", "password", "max-clicks", "block-bots"}
               /\ KeyCount(form, "url") = 1 /\ FormValues(form, "url") = {req.url}
               /\ SentWhenSet(form, "emojies", req.emojies,
                              IF req.emojies.some THEN req.emojies.v ELSE <<>>)
          /\ op \in {"shorten", "emoji"} =>
               /\ SentWhenSet(form, "max-clicks", req.max_clicks,
                              IF req.max_clicks.some
                              THEN MaxClicksText(req.max_clicks.v) ELSE <<>>)
               /\ SentWhenSet(form, "block-bots", req.block_bots,
                              IF req.block_bots.some /\ req.block_bots.v
                              THEN <<"t", "r", "u", "e">>
                              ELSE <<"f", "a", "l", "s", "e">>)
          /\ op \in {"stats", "export"} => FormKeys(form) \subseteq {"password"}
          /\ SentWhenSet(form, "password", req.password,
                         IF req.password.some THEN req.password.v ELSE <<>>)
          /\ \A j \in 1..Len(form) : form[j].value # <<>>

\* A shorten request with every optional field set, on its way with five
\* entries in its form.
C14_Witness ==
  \E c \in Made :
    /\ calls[c].fn = "shorten_blocking"
    /\ calls[c].req.alias.some /\ calls[c].req.password.some
    /\ calls[c].req.max_clicks.some /\ calls[c].req.block_bots.some
    /\ Len(calls[c].sent) = 1
    /\ Len(calls[c].sent[1].form) = 5

(***************************************************************************)
(* C15.  Every submitted request is a POST to the operation's own path     *)
(* under the base URL of the client: shorten to {base}/, emoji to          *)
(* {base}/emoji, stats to {base}/stats/{short_code}, export to             *)
(* {base}/export/{short_code}/{format}, the format being json, csv, xlsx   *)
(* or xml for JSON, CSV, XLSX, XML, and the short code the request's own,  *)
(* unchanged.                                                              *)
(***************************************************************************)
\* The path segment of an export format.
FormatSegment(f) ==
  CASE f = "JSON" -> <<"j", "s", "o", "n">>
    [] f = "CSV" -> <<"c", "s", "v">>
    [] f = "XLSX" -> <<"x", "l", "s", "x">>
    [] f = "XML" -> <<"x", "m", "l">>
\* The path of an operation's endpoint for a request.
EndpointPath(op, req) ==
  CASE op = "shorten" -> <<"/">>
    [] op = "emoji" -> <<"/", "e", "m", "o", "j", "i">>
    [] op = "stats" -> <<"/", "s", "t", "a", "t", "s", "/">> \o req.short_code
    [] op = "export" ->
         <<"/", "e", "x", "p", "o", "r", "t", "/">> \o req.short_code \o <<"/">>
           \o FormatSegment(req.export_format)

C15_PostToTheOperationsPath ==
  \A c \in Made :
    \A i \in 1..Len(calls[c].sent) :
      /\ calls[c].sent[i].method = "POST"
      /\ calls[c].sent[i].url =
           client.base_url \o EndpointPath(OperationOf(c), calls[c].req)

\* An export of XLSX and a stats request on their way, under a base URL
\* that was set.
C15_Witness ==
  \E c \in Made :
    /\ Len(calls[c].sent) = 1
    /\ client.base_url = Str_http_localhost
    /\ \/ calls[c].fn = "export" /\ calls[c].req.export_format = "XLSX"
       \/ calls[c].fn = "stats_blocking"

(***************************************************************************)
(* The validators on their own.  Their inputs are drawn from bounded sets  *)
(* of strings (a prefix of the catalogue followed by every tail of at most *)
(* MaxTailLen characters of a small alphabet) and of numbers, one field    *)
(* at a time, and each is applied by the methods that call it.             *)
(***************************************************************************)
MaxTailLen == 2
\* Every string of at most MaxTailLen characters of the alphabet.
Tails(alphabet) == UNION {[1..n -> alphabet] : n \in 0..MaxTailLen}
\* Every prefix followed by every tail.
Extended(prefixes, alphabet) == {p \o t : p \in prefixes, t \in Tails(alphabet)}

PasswordAlphabet == {"a", "1", "@", ".", "U+00E9"}
PasswordInputs ==
  Extended({<<>>,
            <<"a", "1", "a", "a", "a">>,
            <<"a", "1", "a", "a", "a", "a">>,
            <<"a", "a", "a", "a", "a", "a", "a", "a">>},
           PasswordAlphabet)
    \cup {Str_Valid_123, Str_short, Str_NoDigit,
          <<"N", "o", "S", "p", "e", "c", "i", "a", "l", "1", "2", "3">>,
          <<"I", "n", "v", "a", "l", "i", "d", "@", "@", "@">>}

UrlAlphabet == {"a", ".", "/", " ", "\""}
UrlInputs ==
  Extended({p \o h :
              p \in {<<>>, <<" ">>, Str_ftp \o Str_scheme_sep,
                     Str_http \o Str_scheme_sep, Str_https \o Str_scheme_sep,
                     <<"f", "i", "l", "e">> \o Str_scheme_sep,
                     <<"h", "t", "t", "p", ":", "/">>},
              h \in {<<>>, Str_spoo_me, <<"l", "o", "c", "a", "l", "h", "o", "s", "t">>}},
           UrlAlphabet)
    \cup Urls

AliasAlphabet == {"a", "Z", "0", "_", "-", " ", ".", "U+00E9"}
AliasInputs ==
  Extended({<<>>,
            <<"a", "b", "c", "d", "e", "f", "g", "h", "i", "j", "k", "l", "m">>,
            <<"a", "b", "c", "d", "e", "f", "g", "h", "i", "j", "k", "l", "m", "n">>},
           AliasAlphabet)
    \cup {Str_valid_alias, Str_invalid_alias, Str_too_long_alias_12345,
          <<"v", "a", "l", "i", "d", "1", "2", "3">>}

MaxClicksInputs ==
  {U32Zero, U32One, U32(0, 2), U32(0, HalfWord - 1), U32(1, 0), U32MaxValue}

\* Requests that put one input in one field, every other field being one
\* that passes.
ValidatorRequests(op) ==
  CASE op = "shorten" ->
         {ShortenRequest_new(url) : url \in UrlInputs}
           \cup {ShortenRequest_alias(ShortenRequest_new(Str_ftp_example_com), a) :
                   a \in AliasInputs}
           \cup {ShortenRequest_password(ShortenRequest_new(Str_ftp_example_com), p) :
                   p \in PasswordInputs}
           \cup {ShortenRequest_max_clicks(ShortenRequest_new(Str_ftp_example_com), n) :
                   n \in MaxClicksInputs}
    [] op = "emoji" ->
         {EmojiRequest_new(url) : url \in UrlInputs}
           \cup {EmojiRequest_password(EmojiRequest_new(Str_ftp_example_com), p) :
                   p \in PasswordInputs}
           \cup {EmojiRequest_max_clicks(EmojiRequest_new(Str_ftp_example_com), n) :
                   n \in MaxClicksInputs}
    [] op = "stats" ->
         {StatsRequest_new(code) : code \in AliasInputs}
           \cup {StatsRequest_password(StatsRequest_new(Str_ga), p) :
                   p \in PasswordInputs}
    [] op = "export" -> {ExportRequest_new(code, "JSON") : code \in AliasInputs}

ValidatorNext ==
  \/ Call(1, "shorten", ValidatorRequests("shorten"))
  \/ Call(1, "shorten_blocking", ValidatorRequests("shorten"))
  \/ Call(1, "emoji", ValidatorRequests("emoji"))
  \/ Call(1, "emoji_blocking", ValidatorRequests("emoji"))
  \/ Call(1, "stats", ValidatorRequests("stats"))
  \/ Call(1, "stats_blocking", ValidatorRequests("stats"))
  \/ Call(1, "export", ValidatorRequests("export"))
  \/ Call(1, "export_blocking", ValidatorRequests("export"))
  \/ SendFails(1)
  \/ Returned(1)

SpecValidators == Init /\ [][ValidatorNext]_vars

(***************************************************************************)
(* C16.  is_valid_password(s) is true exactly when s has at least 8        *)
(* characters, an alphabetic character, an ASCII digit, one of '@' and     *)
(* '.', and none of the adjacent pairs "..", "@@", "@.", ".@"; and         *)
(* shorten, emoji and stats reject the password exactly when it is not     *)
(* so.                                                                     *)
(***************************************************************************)
\* The rule, on the characters of s.
PasswordRule(s) ==
  /\ Len(s) >= 8
  /\ \E i \in 1..Len(s) : s[i] \in Lower \cup Upper \cup {"U+00E9"}
  /\ \E i \in 1..Len(s) : s[i] \in Digits
  /\ \E i \in 1..Len(s) : s[i] \in {"@", "."}
  /\ \A i \in 1..(Len(s) - 1) :
       <<s[i], s[i + 1]>> \notin
         {<<".", ".">>, <<"@", "@">>, <<"@", ".">>, <<".", "@">>}

C16_PasswordRule ==
  \A c \in Made :
    calls[c].req.password.some =>
      LET pw == calls[c].req.password.v IN
      /\ is_valid_password(pw) <=> PasswordRule(pw)
      /\ Len(pw) < 8 => ~is_valid_password(pw)
      /\ OperationOf(c) # "export" =>
           (SameResult(calls[c].result, ErrValidation("InvalidPasswordFormat", pw))
              <=> ~PasswordRule(pw))

(***************************************************************************)
(* C17.  is_valid_url(s, exclusion) is true exactly when s is ftp://,      *)
(* http:// or https:// followed by at least one character, with no space  *)
(* and no double quote after the scheme, s does not contain the exclusion  *)
(* substring, and s does not contain "..".  The exclusion is the one the   *)
(* build gives the function: the client's base URL with custom_url, the    *)
(* host name "spoo.me" without; shorten and emoji reject a url exactly     *)
(* when it is not so.                                                      *)
(***************************************************************************)
\* s holds sub at position i.
OccursAt(s, sub, i) ==
  /\ i + Len(sub) - 1 <= Len(s)
  /\ \A j \in 1..Len(sub) : s[i + j - 1] = sub[j]
\* The rule, on the characters of s.
UrlRule(s, exclusion) ==
  /\ \E scheme \in {<<"f", "t", "p", ":", "/", "/">>,
                    <<"h", "t", "t", "p", ":", "/", "/">>,
                    <<"h", "t", "t", "p", "s", ":", "/", "/">>} :
       /\ OccursAt(s, scheme, 1)
       /\ Len(s) > Len(scheme)
       /\ \A i \in (Len(scheme) + 1)..Len(s) : s[i] # " " /\ s[i] # "\""
  /\ ~\E i \in 1..(Len(s) + 1) : OccursAt(s, exclusion, i)
  /\ ~\E i \in 1..Len(s) : OccursAt(s, <<".", ".">>, i)
\* The exclusion substring the build's is_valid_url works with.
Exclusion == IF features.custom_url THEN client.base_url ELSE <<"s", "p", "o", "o", ".", "m", "e">>

C17_UrlRule ==
  \A c \in Made :
    OperationOf(c) \in {"shorten", "emoji"} =>
      LET url == calls[c].req.url IN
      /\ is_valid_url_custom(url, client.base_url) <=> UrlRule(url, client.base_url)
      /\ \A e \in BaseUrls \cup {Str_spoo_me} :
           is_valid_url_custom(url, e) <=> UrlRule(url, e)
      /\ is_valid_url_default(url) <=> UrlRule(url, <<"s", "p", "o", "o", ".", "m", "e">>)
      /\ ~PasswordRejected(calls[c].req) =>
           (SameResult(calls[c].result, ErrValidation("InvalidUrlFormat", url))
              <=> ~UrlRule(url, Exclusion))

\* A url accepted and sent, one refused for a quote after the scheme, one
\* refused for the exclusion substring.
C17_Witness ==
  \E c \in Made :
    /\ calls[c].fn \in {"emoji", "emoji_blocking"}
    /\ \/ calls[c].pc = "sending" /\ calls[c].req.url = Str_ftp_example_com
       \/ /\ calls[c].pc = "done"
          /\ calls[c].req.url = Str_http \o Str_scheme_sep \o <<"a", "\"">>
       \/ /\ calls[c].pc = "done"
          /\ calls[c].req.url = Str_https_spoo_me_test

(***************************************************************************)
(* A client built with new() and never given another base URL.             *)
(***************************************************************************)
InitDefaultClient ==
  /\ features \in [blocking : BOOLEAN, custom_url : BOOLEAN]
  /\ client = UrlShortenerClient_new
  /\ calls = [c \in CallIds |-> IdleCall]

SpecDefaultClient == InitDefaultClient /\ [][Step(1)]_vars

(***************************************************************************)
(* C18.  With a client built with new(), in every build, shorten and       *)
(* emoji work with the host name "spoo.me" as the exclusion: a url that    *)
(* contains "spoo.me" (http://spoo.me/x as well as https://spoo.me/test)   *)
(* is rejected with the invalid-URL error carrying it.                     *)
(***************************************************************************)
C18_DefaultExclusionIsTheHostName ==
  \A c \in Made :
    LET req == calls[c].req IN
    /\ OperationOf(c) \in {"shorten", "emoji"}
    /\ \E i \in 1..Len(req.url) : OccursAt(req.url, <<"s", "p", "o", "o", ".", "m", "e">>, i)
    /\ ~PasswordRejected(req)
    => SameResult(calls[c].result, ErrValidation("InvalidUrlFormat", req.url))

(***************************************************************************)
(* C19.  is_valid_alias(s) is true exactly when s is non-empty, has at     *)
(* most 15 characters and only characters of [a-zA-Z0-9_-]; shorten        *)
(* applies it to the alias and stats and export to the short code: each    *)
(* rejects a request that passes its earlier checks exactly when the       *)
(* predicate fails.                                                        *)
(***************************************************************************)
\* The rule, on the characters of s.
AliasRule(s) ==
  /\ s # <<>>
  /\ Len(s) <= 15
  /\ \A i \in 1..Len(s) : s[i] \in Lower \cup Upper \cup Digits \cup {"_", "-"}
\* The alias of a shorten request, the short code of a stats or export one.
AliasOrShortCode(op, req) ==
  CASE op = "shorten" -> req.alias
    [] op \in {"stats", "export"} -> Some(req.short_code)
    [] OTHER -> None

C19_AliasRule ==
  \A c \in Made :
    LET op == OperationOf(c)
        req == calls[c].req
        a == AliasOrShortCode(op, req)
        r == calls[c].result
    IN  a.some =>
          /\ is_valid_alias(a.v) <=> AliasRule(a.v)
          /\ ~PasswordRejected(req) /\ (op = "shorten" => UrlAccepted(req.url)) =>
               /\ r.kind = "Validation" <=> ~AliasRule(a.v)
               /\ ~AliasRule(a.v) /\ ~(op = "stats" /\ a.v = <<>>) =>
                    SameResult(r, ErrValidation("InvalidAliasFormat", a.v))

\* An alias of 15 characters sent by shorten, a short code of 16 refused
\* by export, and one with a character outside the class refused by stats.
C19_Witness ==
  \E c \in Made :
    \/ /\ calls[c].fn = "shorten" /\ calls[c].pc = "sending"
       /\ calls[c].req.alias.some /\ Len(calls[c].req.alias.v) = 15
    \/ /\ calls[c].fn = "export_blocking" /\ calls[c].pc = "done"
       /\ Len(calls[c].req.short_code) = 16
       /\ calls[c].result.tag = "InvalidAliasFormat"
    \/ /\ calls[c].fn = "stats" /\ calls[c].pc = "done"
       /\ calls[c].req.short_code = <<"U+00E9">>
       /\ calls[c].result.tag = "InvalidAliasFormat"

(***************************************************************************)
(* C20.  is_valid_max_clicks(n) is true exactly when n > 0, for n from 0   *)
(* to 4294967295; shorten and emoji reject a request that passes their     *)
(* earlier checks and has a max-clicks of 0 with the invalid-max-clicks    *)
(* error carrying 0, and submit every request with a max-clicks of 1 or    *)
(* more.                                                                   *)
(***************************************************************************)
C20_MaxClicksRule ==
  \A c \in Made :
    LET req == calls[c].req
        r == calls[c].result
    IN  OperationOf(c) \in {"shorten", "emoji"} /\ req.max_clicks.some =>
          LET n == req.max_clicks.v IN
          /\ is_valid_max_clicks(n) <=> (n.hi # 0 \/ n.lo # 0)
          /\ is_valid_max_clicks(U32One) /\ is_valid_max_clicks(U32MaxValue)
          /\ ~is_valid_max_clicks(U32Zero)
          /\ ~PasswordRejected(req) /\ UrlAccepted(req.url)
               /\ (OperationOf(c) = "shorten" /\ req.alias.some =>
                     is_valid_alias(req.alias.v)) =>
               IF n = U32Zero
               THEN SameResult(r, ErrValidation("InvalidMaxClicks", U32Zero))
               ELSE /\ r.kind # "Validation"
                    /\ Len(calls[c].sent) = 1
                    /\ <<"0">> \notin FormValues(calls[c].sent[1].form, "max-clicks")

\* A max-clicks of 0 refused by emoji, and one of 65536 and one of
\* 4294967295 sent by shorten.
C20_Witness ==
  \E c \in Made :
    /\ calls[c].req.max_clicks.some
    /\ \/ /\ calls[c].fn = "emoji_blocking"
          /\ calls[c].result.tag = "InvalidMaxClicks"
       \/ /\ calls[c].fn = "shorten"
          /\ calls[c].req.max_clicks.v \in {U32(1, 0), U32MaxValue}
          /\ calls[c].pc = "sending"

(***************************************************************************)
(* C21.  The 429 test precedes any use of the response body: a call that   *)
(* received a response with status 429 and whose read of the body failed,  *)
(* or never took place, returns the rate-limit error, never a transport    *)
(* error.                                                                  *)
(***************************************************************************)
C21_RateLimitCheckedBeforeTheBody ==
  \A c \in Answered :
    StatusOf(c) = 429 /\ ~calls[c].resp.v.body.some =>
      /\ calls[c].result.kind # "Http"
      /\ SameResult(calls[c].result, RateLimited)

(***************************************************************************)
(* C22.  A failure of the transport, while sending the request or while    *)
(* reading the response body, a timeout included, ends the call at once    *)
(* with the transport error holding the transport's own error: not a       *)
(* service, decode or unstructured error, not a success, and no further    *)
(* request is sent.                                                        *)
(***************************************************************************)
\* The step of call c in which send() failed: the call was waiting for the
\* response and is over without one.
SendFailed(c) ==
  calls[c].pc = "sending" /\ calls'[c].pc # "sending" /\ ~calls'[c].resp.some
\* The step of call c in which text() or bytes() failed: the call was
\* waiting for the body and is over without it.
ReadFailed(c) ==
  calls[c].pc = "reading" /\ calls'[c].pc # "reading"
    /\ ~calls'[c].resp.v.body.some

TransportFailureIsReturned(c) ==
  /\ SendFailed(c) =>
       /\ calls'[c].pc = "done"
       /\ calls'[c].result.kind = "Http"
       /\ calls'[c].result.value \in SendErrors
       /\ calls'[c].sent = calls[c].sent
  /\ ReadFailed(c) =>
       /\ calls'[c].pc = "done"
       /\ calls'[c].result.kind = "Http"
       /\ calls'[c].result.value \in ReadErrors
       /\ calls'[c].sent = calls[c].sent
       /\ calls'[c].resp.v.status = calls[c].resp.v.status

C22_TransportFailureIsReturned ==
  [][\A c \in CallIds : TransportFailureIsReturned(c)]_vars

\* stats received a 200 and the read of its body timed out.
C22_Witness ==
  \E c \in Answered :
    /\ OperationOf(c) = "stats"
    /\ StatusOf(c) = 200
    /\ ~calls[c].resp.v.body.some
    /\ SameResult(calls[c].result, ErrHttp("timeout"))
    /\ Len(calls[c].sent) = 1

(***************************************************************************)
(* A client built with new() and reconfigured with set_base_url between    *)
(* its calls: here a base URL other than the default host was put there    *)
(* by set_base_url.                                                        *)
(***************************************************************************)
SpecReconfigured == InitDefaultClient /\ [][Next]_vars

(***************************************************************************)
(* C23.  The base URL is the client's only configuration: it is the        *)
(* default host after new() and u after new_with_base_url(u) or            *)
(* set_base_url(u); no step of an operation call changes it; and every     *)
(* call builds its path from the base URL of the moment and, where         *)
(* set_base_url exists, validates the url against it, not against an       *)
(* earlier one.                                                            *)
(***************************************************************************)
\* The call uses the client's base URL as it is now.
UsesTheBaseUrl(c) ==
  LET req == calls[c].req
      op == OperationOf(c)
  IN  /\ \A i \in 1..Len(calls[c].sent) :
           calls[c].sent[i].url = client.base_url \o EndpointPath(op, req)
      /\ features.custom_url /\ op \in {"shorten", "emoji"}
           /\ ~PasswordRejected(req) =>
           (SameResult(calls[c].result, ErrValidation("InvalidUrlFormat", req.url))
              <=> ~UrlRule(req.url, client.base_url))

\* A step either belongs to a call and leaves the client alone, or is
\* set_base_url: between calls, in a build with custom_url, and the new
\* base URL is the one given.
BaseUrlChangesOnlyBySetBaseUrl ==
  /\ (\E c \in CallIds : calls'[c].pc # calls[c].pc) => client' = client
  /\ client' # client =>
       /\ features.custom_url
       /\ client'.base_url \in BaseUrls
       /\ \A c \in CallIds : calls[c].pc = "idle" /\ calls'[c].pc = "idle"
  /\ features' = features

C23_BaseUrlIsTheOnlyConfiguration ==
  /\ [](/\ UrlShortenerClient_new.base_url = Str_https_spoo_me
        /\ \A u \in BaseUrls : UrlShortenerClient_new_with_base_url(u).base_url = u
        /\ \A c \in Made : UsesTheBaseUrl(c))
  /\ [][BaseUrlChangesOnlyBySetBaseUrl]_vars

\* After set_base_url("http://localhost") on a client built with new(),
\* shorten accepts https://spoo.me/test, which the earlier base URL
\* excluded, and posts it to http://localhost/.
C23_Witness ==
  \E c \in Made :
    /\ features.custom_url
    /\ client.base_url = Str_http_localhost
    /\ calls[c].fn = "shorten"
    /\ calls[c].req.url = Str_https_spoo_me_test
    /\ calls[c].pc = "sending"
    /\ calls[c].sent = <<shorten_request(Str_http_localhost, calls[c].req)>>

(***************************************************************************)
(* C24.  The checks of an operation run in a fixed order and the first     *)
(* that fails decides the error: shorten checks password, url, alias,      *)
(* max-clicks; emoji password, url, max-clicks; stats the empty short      *)
(* code, password, short-code format; export the empty short code, then    *)
(* the short-code format.  A request with several invalid fields reports   *)
(* the earliest only.                                                      *)
(***************************************************************************)
\* The checks of an operation in the order stated, each with whether the
\* request fails it (by the validator the operation calls) and the error
\* the operation reports for it.
Check(fails, tag, value) == [fails |-> fails, tag |-> tag, value |-> value]
PasswordCheck(req) ==
  Check(PasswordRejected(req), "InvalidPasswordFormat",
        IF req.password.some THEN req.password.v ELSE <<>>)
UrlCheck(req) == Check(~UrlAccepted(req.url), "InvalidUrlFormat", req.url)
AliasCheck(req) ==
  Check(req.alias.some /\ ~is_valid_alias(req.alias.v), "InvalidAliasFormat",
        IF req.alias.some THEN req.alias.v ELSE <<>>)
MaxClicksCheck(req) ==
  Check(req.max_clicks.some /\ ~is_valid_max_clicks(req.max_clicks.v), "InvalidMaxClicks",
        IF req.max_clicks.some THEN req.max_clicks.v ELSE U32Zero)
ShortCodeFormatCheck(req) ==
  Check(~is_valid_alias(req.short_code), "InvalidAliasFormat", req.short_code)
ChecksInOrder(op, req) ==
  CASE op = "shorten" ->
         <<PasswordCheck(req), UrlCheck(req), AliasCheck(req), MaxClicksCheck(req)>>
    [] op = "emoji" ->
         <<PasswordCheck(req), UrlCheck(req), MaxClicksCheck(req)>>
    [] op = "stats" ->
         <<Check(req.short_code = <<>>, "InvalidPasswordFormat", Str_short_code_empty_msg),
           PasswordCheck(req), ShortCodeFormatCheck(req)>>
    [] op = "export" ->
         <<Check(req.short_code = <<>>, "InvalidAliasFormat", req.short_code),
           ShortCodeFormatCheck(req)>>
\* The positions of the failing checks.
Failing(checks) == {i \in 1..Len(checks) : checks[i].fails}
First(S) == CHOOSE i \in S : \A j \in S : i <= j

C24_FirstFailingCheckDecides ==
  \A c \in Made :
    LET checks == ChecksInOrder(OperationOf(c), calls[c].req)
        r == calls[c].result
    IN  IF Failing(checks) = {}
        THEN r.kind # "Validation"
        ELSE LET first == checks[First(Failing(checks))] IN
             /\ calls[c].pc = "done"
             /\ r.kind = "Validation"
             /\ r.tag = first.tag
             /\ r.value = first.value
             /\ calls[c].sent = <<>>

\* shorten of a request whose url, alias and max-clicks are all invalid
\* and whose password is valid: the url is the one reported.
C24_Witness ==
  \E c \in Completed :
    LET req == calls[c].req IN
    /\ OperationOf(c) = "shorten"
    /\ Cardinality(Failing(ChecksInOrder("shorten", req))) = 3
    /\ req.password.some /\ ~PasswordRejected(req)
    /\ calls[c].result.tag = "InvalidUrlFormat"

(***************************************************************************)
(* C25.  The status dominates the body.  A call returns a success value    *)
(* only if its checks passed, exactly one request was sent and the         *)
(* response had a success status; a response with another status never     *)
(* gives a success value, even with a body that decodes as the             *)
(* operation's response; and a success status never gives a service        *)
(* error: on a body that is an error JSON such as {"error":"AliasError"}   *)
(* shorten, emoji and stats give the decode error and export the bytes.    *)
(***************************************************************************)
\* The bodies of the catalogue that are an error JSON: an object with a
\* label under "error" and nothing else.
ErrorJsonBodies ==
  {Body_UrlError, Body_AliasError, Body_PasswordError, Body_MaxClicksError,
   Body_EmojiError, Body_unknown_label}

C25_StatusDominatesTheBody ==
  \A c \in Completed :
    LET op == OperationOf(c)
        r == calls[c].result
    IN  /\ r.kind = "Ok" =>
             /\ ~FailsValidation(op, calls[c].req)
             /\ Len(calls[c].sent) = 1
             /\ c \in BodyRead
             /\ 200 <= StatusOf(c) /\ StatusOf(c) <= 299
        /\ c \in Answered /\ ~(200 <= StatusOf(c) /\ StatusOf(c) <= 299) =>
             r.kind # "Ok"
        /\ c \in Answered /\ 200 <= StatusOf(c) /\ StatusOf(c) <= 299 =>
             /\ r.kind # "Api"
             /\ c \in BodyRead /\ BodyOf(c) \in ErrorJsonBodies =>
                  IF op = "export"
                  THEN SameResult(r, Ok("ExportResponse", [data |-> BodyOf(c)]))
                  ELSE r.kind = "Json"

\* stats received a 299 with the body {"error":"AliasError"} and returned
\* the decode error.
C25_Witness ==
  \E c \in BodyRead :
    /\ OperationOf(c) = "stats"
    /\ StatusOf(c) = 299
    /\ BodyOf(c) = Body_AliasError
    /\ calls[c].result.kind = "Json"

=============================================================================
